---- MODULE Spec2Model ----
(***************************************************************************)
(* Task orchestration (TasksService) over the read-through cache           *)
(* (BaseCacheService / TaskCacheService), the persistence query layer      *)
(* (TaskQueryBuilder), the activity recorder (ActivitiesService with       *)
(* ActivityTrackerService) and the e-mail notifier (EmailService); and     *)
(* TasksController with its ActivityLoggingInterceptor in front of it.     *)
(*                                                                         *)
(* Every request is a process that advances one awaited I/O operation at   *)
(* a time (cache get/set/del/keys, persistence read/write, activity        *)
(* write); requests interleave at exactly those points.                    *)
(***************************************************************************)
EXTENDS Integers, Sequences, FiniteSets, TLC

\* ------------------------------------------------------------------ bounds
NumProcs == 2
MaxWork == 3
MaxTasks == 2
RaceWork == 5
HttpWork == 2
CacheWork == 3
MaxFilterLen == 3
MaxIdLen == 2
MaxTagsLen == 2
MaxPage == 4
MaxPerPage == 5
MaxTotal == 15
MaxLogLen == 3
MaxStamp == 2
MaxTake == 2

Procs == 1..NumProcs
TaskIds == 1..MaxTasks

\* ------------------------------------------------------------ JS values
Null == "null"
Undefined == "undefined"

Truthy(v) == v # Undefined /\ v # Null /\ v # ""

\* x ?? y
Coalesce(x, y) == IF x = Undefined \/ x = Null THEN y ELSE x

\* a tag collection: def = Array.isArray(tags), ids = the ids of its members
NoTags == [def |-> FALSE, ids |-> <<>>]
Tags(ids) == [def |-> TRUE, ids |-> ids]

ProjectId == "p1"

\* ------------------------------------------------------------- requests
Filters == { <<>>, << <<"assigneeId", "u1">> >> }

EmptyCreate ==
  [title |-> "t1", description |-> Undefined, status |-> "TODO",
   priority |-> "MEDIUM", dueDate |-> Undefined, projectId |-> ProjectId,
   assigneeId |-> Undefined, tagIds |-> NoTags]

CreateDtos == { EmptyCreate, [EmptyCreate EXCEPT !.assigneeId = "u1"] }

EmptyUpdate ==
  [title |-> Undefined, description |-> Undefined, status |-> Undefined,
   priority |-> Undefined, dueDate |-> Undefined, assigneeId |-> Undefined,
   tagIds |-> NoTags]

UpdateDtos ==
  { [EmptyUpdate EXCEPT !.title = "t2"],
    [EmptyUpdate EXCEPT !.assigneeId = "u2"] }

\* the bodies of PUT /tasks/:id: also one that unassigns and one that names
\* the assignee the seeded task already has
HttpUpdateDtos ==
  UpdateDtos \cup { [EmptyUpdate EXCEPT !.assigneeId = Null],
                    [EmptyUpdate EXCEPT !.assigneeId = "u1"] }

\* the x-user-id header: absent, or the id of a user
Headers == { Undefined, "u1" }

NoTask ==
  [id |-> 0, title |-> Undefined, description |-> Undefined,
   status |-> Undefined, priority |-> Undefined, dueDate |-> Undefined,
   assigneeId |-> Undefined, projectId |-> Undefined, tags |-> NoTags]

SeedTask ==
  [id |-> 1, title |-> "t1", description |-> Null, status |-> "TODO",
   priority |-> "MEDIUM", dueDate |-> Null, assigneeId |-> "u1",
   projectId |-> ProjectId, tags |-> Tags(<<>>)]

\* --------------------------------------------------------------- dates
\* ISO-8601 strings and the Date objects they parse to (same instant, same index)
IsoDates == << "2025-01-01T00:00:00.000Z", "2025-06-01T00:00:00.000Z" >>
DateObjs == << "Date(2025-01-01)", "Date(2025-06-01)" >>

SeqRange(s) == { s[i] : i \in 1..Len(s) }

IndexOf(s, v) == CHOOSE i \in 1..Len(s) : s[i] = v

isISODate(str) == str \in SeqRange(IsoDates)

\* new Date(str)
NewDate(str) == IF isISODate(str) THEN DateObjs[IndexOf(IsoDates, str)] ELSE str

\* Date.getTime(): comparable instants, 0 for a value that is no date
GetTime(d) == IF d \in SeqRange(DateObjs) THEN IndexOf(DateObjs, d) ELSE 0

\* -------------------------------------------------------- key derivation
\* Object.keys(filterDto).sort() ranges over these names, in this order
SortedFilterFields ==
  << "assigneeId", "dueDateFrom", "dueDateTo", "priority", "projectId", "status" >>

HasField(f, n) == \E i \in 1..Len(f) : f[i][1] = n

FilterGet(f, n) ==
  IF HasField(f, n) THEN f[CHOOSE i \in 1..Len(f) : f[i][1] = n][2] ELSE Undefined

\* JsonStringify with the values left out: the names of the properties that
\* are set
JsonStringifyNamesOnly(f) ==
  LET names == SelectSeq(SortedFilterFields,
                         LAMBDA n : HasField(f, n) /\ FilterGet(f, n) # Undefined)
  IN  [i \in 1..Len(names) |-> <<names[i], "set">>]

\* JsonStringify without the sorted replacer: the properties in the order in
\* which the object holds them
JsonStringifyAsInserted(f) ==
  SelectSeq(f, LAMBDA pr : pr[2] # Undefined)

\* JSON.stringify(filterDto, sortedKeys): the properties in the order of the
\* replacer array, a property whose value is undefined left out
JsonStringify(f) ==
  LET names == SelectSeq(SortedFilterFields,
                         LAMBDA n : HasField(f, n) /\ FilterGet(f, n) # Undefined)
  IN  [i \in 1..Len(names) |-> <<names[i], FilterGet(f, names[i])>>]

\* md5 hex digest, taken as collision-free: a tag on the hashed string
Md5(str) == <<"md5", str>>

generateListCacheKey(prefix, filterDto) ==
  <<prefix, "list", Md5(JsonStringify(filterDto))>>

\* generateItemCacheKey without the id: one key for every item of the family
generateItemCacheKeyShared(prefix, id) == <<prefix, "item", 1>>

generateItemCacheKey(prefix, id) == <<prefix, "item", id>>

TaskPrefix == "tasks"

\* the prefix of the cache family of ProjectCacheService
ProjectPrefix == "projects"

\* digest("hex") of md5: 32 characters, each a lowercase hex digit, which ones
\* being a matter of the hashed string alone
DigestLen == 32

HexDigest(hash) == [i \in 1..DigestLen |-> <<"hex", i, hash[2]>>]

IsHexChar(c) == c \in { <<"hex", i, c[3]>> : i \in 1..DigestLen }

\* the characters of the words the keys are made of
Chars(word) ==
  CASE word = "tasks" -> << "t", "a", "s", "k", "s" >>
    [] word = "list" -> << "l", "i", "s", "t" >>
    [] word = "item" -> << "i", "t", "e", "m" >>

\* KeyText with the parts put together without the colons
KeyTextUnseparated(key) ==
  Chars(key[1]) \o Chars(key[2]) \o
    (IF key[2] = "list" THEN HexDigest(key[3]) ELSE key[3])

\* the template literals of generateListCacheKey and generateItemCacheKey:
\* the string a key is, character by character; an id is the string it is
KeyText(key) ==
  Chars(key[1]) \o <<":">> \o Chars(key[2]) \o <<":">> \o
    (IF key[2] = "list" THEN HexDigest(key[3]) ELSE key[3])

\* ---------------------------------------------------------- query builder
buildWhereClause(filterDto) ==
  [status     |-> IF Truthy(FilterGet(filterDto, "status"))
                  THEN FilterGet(filterDto, "status") ELSE Undefined,
   priority   |-> IF Truthy(FilterGet(filterDto, "priority"))
                  THEN FilterGet(filterDto, "priority") ELSE Undefined,
   assigneeId |-> IF Truthy(FilterGet(filterDto, "assigneeId"))
                  THEN FilterGet(filterDto, "assigneeId") ELSE Undefined,
   projectId  |-> IF Truthy(FilterGet(filterDto, "projectId"))
                  THEN FilterGet(filterDto, "projectId") ELSE Undefined,
   dueDateGte |-> IF Truthy(FilterGet(filterDto, "dueDateFrom"))
                  THEN NewDate(FilterGet(filterDto, "dueDateFrom")) ELSE Undefined,
   dueDateLte |-> IF Truthy(FilterGet(filterDto, "dueDateTo"))
                  THEN NewDate(FilterGet(filterDto, "dueDateTo")) ELSE Undefined]

\* the rows a where clause selects
TaskMatches(t, where) ==
  /\ where.status # Undefined => t.status = where.status
  /\ where.priority # Undefined => t.priority = where.priority
  /\ where.assigneeId # Undefined => t.assigneeId = where.assigneeId
  /\ where.projectId # Undefined => t.projectId = where.projectId
  /\ where.dueDateGte # Undefined =>
       t.dueDate # Null /\ GetTime(t.dueDate) >= GetTime(where.dueDateGte)
  /\ where.dueDateLte # Undefined =>
       t.dueDate # Null /\ GetTime(t.dueDate) <= GetTime(where.dueDateLte)

RECURSIVE SeqDesc(_)
SeqDesc(S) ==
  IF S = {} THEN <<>>
  ELSE LET m == CHOOSE x \in S : \A y \in S : y <= x
       IN  <<m>> \o SeqDesc(S \ {m})

\* findMany({where, orderBy: {createdAt: "desc"}}): ids are handed out in
\* creation order, so the newest task has the largest id
executeTaskListQuery(rows, filterDto) ==
  LET ids == SeqDesc({ i \in DOMAIN rows :
                         TaskMatches(rows[i], buildWhereClause(filterDto)) })
  IN  [k \in 1..Len(ids) |-> rows[ids[k]]]

\* findUnique({where: {id}}): the row, or null
executeTaskQuery(rows, id) == IF id \in DOMAIN rows THEN rows[id] ELSE NoTask

\* the row prisma.task.create makes of taskData
createTask(id, dto) ==
  [id |-> id, title |-> dto.title,
   description |-> Coalesce(dto.description, Null),
   status |-> dto.status, priority |-> dto.priority,
   dueDate |-> IF dto.dueDate = Undefined THEN Null ELSE NewDate(dto.dueDate),
   assigneeId |-> IF Truthy(dto.assigneeId) THEN dto.assigneeId ELSE Null,
   projectId |-> dto.projectId,
   tags |-> IF dto.tagIds.def THEN Tags(dto.tagIds.ids) ELSE Tags(<<>>)]

\* the row prisma.task.update makes of updateData: undefined leaves a column alone
updateTask(t, dto) ==
  [t EXCEPT
     !.title = IF dto.title = Undefined THEN @ ELSE dto.title,
     !.description = IF dto.description = Undefined THEN @ ELSE dto.description,
     !.status = IF dto.status = Undefined THEN @ ELSE dto.status,
     !.priority = IF dto.priority = Undefined THEN @ ELSE dto.priority,
     !.dueDate = IF dto.dueDate = Undefined THEN @ ELSE NewDate(dto.dueDate),
     !.assigneeId = IF dto.assigneeId = Undefined THEN @
                    ELSE IF Truthy(dto.assigneeId) THEN dto.assigneeId ELSE Null,
     !.tags = IF dto.tagIds.def THEN Tags(dto.tagIds.ids) ELSE @]

\* ------------------------------------------------------- change detection
TrackedFields ==
  << "title", "description", "status", "priority", "dueDate", "assigneeId" >>

\* string order of the tag ids
TagOrder == << "g1", "g2", "g3" >>

\* normalizeValue that leaves undefined as it is
normalizeValueKeepsUndefined(value) ==
  IF isISODate(value) THEN NewDate(value) ELSE value

normalizeValue(value) ==
  IF value = Undefined THEN Null
  ELSE IF isISODate(value) THEN NewDate(value)
  ELSE value

\* hasFieldChanged with dates compared the way everything else is, by !==:
\* the Date made of an ISO string is a new object each time it is made
hasFieldChangedByIdentity(oldValue, newValue) ==
  IF isISODate(oldValue) \/ isISODate(newValue) THEN TRUE
  ELSE normalizeValue(oldValue) # normalizeValue(newValue)

hasFieldChanged(oldValue, newValue) ==
  LET normalizedOld == normalizeValue(oldValue)
      normalizedNew == normalizeValue(newValue)
  IN  IF normalizedOld \in SeqRange(DateObjs) /\ normalizedNew \in SeqRange(DateObjs)
      THEN GetTime(normalizedOld) # GetTime(normalizedNew)
      ELSE normalizedOld # normalizedNew

extractTagIds(tags) ==
  IF ~tags.def THEN <<>> ELSE SelectSeq(tags.ids, Truthy)

RECURSIVE SortIds(_)
SortIds(ids) ==
  IF ids = <<>> THEN <<>>
  ELSE LET m == CHOOSE i \in 1..Len(ids) :
                  \A j \in 1..Len(ids) :
                    IndexOf(TagOrder, ids[i]) <= IndexOf(TagOrder, ids[j])
       IN  <<ids[m]>> \o SortIds([k \in 1..(Len(ids) - 1) |->
                                    IF k < m THEN ids[k] ELSE ids[k + 1]])

hasTagsChanged(oldTags, newTags) ==
  LET oldIds == SortIds(extractTagIds(oldTags))
      newIds == SortIds(extractTagIds(newTags))
  IN  IF Len(oldIds) # Len(newIds) THEN TRUE
      ELSE \E i \in 1..Len(oldIds) : oldIds[i] # newIds[i]

detectTaskChanges(oldTask, newTask) ==
  LET changed == { f \in SeqRange(TrackedFields) :
                     hasFieldChanged(oldTask[f], newTask[f]) }
      fields == [f \in changed |->
                   [old |-> normalizeValue(oldTask[f]),
                    new |-> normalizeValue(newTask[f])]]
  IN  IF hasTagsChanged(oldTask.tags, newTask.tags)
      THEN ("tags" :> [old |-> extractTagIds(oldTask.tags),
                       new |-> extractTagIds(newTask.tags)]) @@ fields
      ELSE fields

\* TasksService.update: the merged state the diff is taken against
newTaskForComparison(existingTask, dto) ==
  [title |-> Coalesce(dto.title, existingTask.title),
   description |-> Coalesce(dto.description, existingTask.description),
   status |-> Coalesce(dto.status, existingTask.status),
   priority |-> Coalesce(dto.priority, existingTask.priority),
   dueDate |-> Coalesce(dto.dueDate, existingTask.dueDate),
   assigneeId |-> IF dto.assigneeId # Undefined THEN dto.assigneeId
                  ELSE existingTask.assigneeId,
   tags |-> IF dto.tagIds.def THEN Tags(dto.tagIds.ids) ELSE existingTask.tags]

\* ------------------------------------------------------ activity records
Users == { "u1", "u2" }

EmptyMap == [f \in {} |-> Null]

NullChanges == [isNull |-> TRUE, map |-> EmptyMap]

\* CreateActivityDto and the row createActivity writes: changes is stored as
\* JSON when given, as null otherwise
ActivityRow(n, taskId, userId, action, changes) ==
  [id |-> n, taskId |-> taskId, userId |-> userId, action |-> action,
   changes |-> changes]

\* the foreign keys of TaskActivity: the write fails unless both rows exist
ActivityWritable(rows, taskId, userId) ==
  taskId \in DOMAIN rows /\ userId \in Users

\* DetachActivities as ON DELETE CASCADE would have it
DetachActivitiesCascade(acts, id) ==
  SelectSeq(acts, LAMBDA a : a.taskId # id)

\* ON DELETE SET NULL of TaskActivity.taskId
DetachActivities(acts, id) ==
  [i \in 1..Len(acts) |->
     IF acts[i].taskId = id THEN [acts[i] EXCEPT !.taskId = 0] ELSE acts[i]]

\* JSON.parse(JSON.stringify(v)) of one value of a change map: a Date comes
\* back as its ISO string, undefined as an absent property, the rest as it is
JsonValue(v) ==
  IF v \in SeqRange(DateObjs) THEN IsoDates[IndexOf(DateObjs, v)] ELSE v

\* the change map as the changes column holds it; the arrays of tag ids
\* come back as they went in
JsonChanges(map) ==
  [f \in DOMAIN map |->
     IF f = "tags" THEN map[f]
     ELSE [k \in { n \in DOMAIN map[f] : map[f][n] # Undefined } |->
             JsonValue(map[f][k])]]

\* createActivity as an upsert: a record of the same task and action is
\* overwritten where there is one
createActivityUpserts(acts, rows, dto) ==
  LET same == { i \in 1..Len(acts) :
                  acts[i].taskId = dto.taskId /\ acts[i].action = dto.action }
      changes == IF dto.changes.isNull THEN NullChanges
                 ELSE [isNull |-> FALSE, map |-> JsonChanges(dto.changes.map)]
  IN  IF ~ActivityWritable(rows, dto.taskId, dto.userId)
      THEN [ok |-> FALSE, acts |-> acts]
      ELSE IF same = {}
      THEN [ok |-> TRUE,
            acts |-> Append(acts, ActivityRow(Len(acts) + 1, dto.taskId,
                                              dto.userId, dto.action, changes))]
      ELSE [ok |-> TRUE,
            acts |-> [i \in 1..Len(acts) |->
                        IF i \in same
                        THEN [acts[i] EXCEPT !.userId = dto.userId,
                                             !.changes = changes]
                        ELSE acts[i]]]

\* ActivitiesService.createActivity: one row is inserted, changes as JSON when
\* the dto has them and as null otherwise; ok is false when the insert is
\* rejected by a foreign key
createActivity(acts, rows, dto) ==
  IF ActivityWritable(rows, dto.taskId, dto.userId)
  THEN [ok |-> TRUE,
        acts |-> Append(acts,
                        ActivityRow(Len(acts) + 1, dto.taskId, dto.userId,
                                    dto.action,
                                    IF dto.changes.isNull THEN NullChanges
                                    ELSE [isNull |-> FALSE,
                                          map |-> JsonChanges(dto.changes.map)]))]
  ELSE [ok |-> FALSE, acts |-> acts]

logTaskCreated(acts, rows, taskId, userId) ==
  createActivity(acts, rows, [taskId |-> taskId, userId |-> userId,
                              action |-> "CREATED", changes |-> NullChanges])

\* logTaskUpdated without its guard: whatever map it is given is recorded
logTaskUpdatedUnguarded(acts, rows, taskId, userId, changes) ==
  createActivity(acts, rows, [taskId |-> taskId, userId |-> userId,
                              action |-> "UPDATED", changes |-> changes])

\* nothing is written for an absent or empty change map
logTaskUpdated(acts, rows, taskId, userId, changes) ==
  IF changes.isNull \/ DOMAIN changes.map = {}
  THEN [ok |-> TRUE, acts |-> acts]
  ELSE createActivity(acts, rows, [taskId |-> taskId, userId |-> userId,
                                   action |-> "UPDATED", changes |-> changes])

\* logTaskDeleted recording the title the task had as a change
logTaskDeletedWithTitle(acts, rows, taskId, userId) ==
  createActivity(acts, rows,
                 [taskId |-> taskId, userId |-> userId, action |-> "DELETED",
                  changes |-> IF taskId \in DOMAIN rows
                              THEN [isNull |-> FALSE,
                                    map |-> ("title" :> [old |-> rows[taskId].title,
                                                         new |-> Null])]
                              ELSE NullChanges])

logTaskDeleted(acts, rows, taskId, userId) ==
  createActivity(acts, rows, [taskId |-> taskId, userId |-> userId,
                              action |-> "DELETED", changes |-> NullChanges])

\* --------------------------------------------------------- activity query
DefaultPage == 1
DefaultPerPage == 20

\* ActivityFilterDto with nothing set; a task id of 0 is no task id, and the
\* created-at of a record is its place in the order of insertion
NoActivityFilter ==
  [userId |-> Undefined, taskId |-> 0, action |-> Undefined, dateFrom |-> 0,
   dateTo |-> 0, page |-> 0, perPage |-> 0]

\* ActivitiesService.buildWhereClause: a condition for each filter that is set
buildActivityWhereClause(filters) ==
  [userId |-> IF Truthy(filters.userId) THEN filters.userId ELSE Undefined,
   taskId |-> filters.taskId,
   action |-> IF Truthy(filters.action) THEN filters.action ELSE Undefined,
   createdAtGte |-> filters.dateFrom,
   createdAtLte |-> filters.dateTo]

ActivityMatches(a, where) ==
  /\ where.userId # Undefined => a.userId = where.userId
  /\ where.taskId # 0 => a.taskId = where.taskId
  /\ where.action # Undefined => a.action = where.action
  /\ where.createdAtGte # 0 => a.id >= where.createdAtGte
  /\ where.createdAtLte # 0 => a.id <= where.createdAtLte

\* ActivitiesService.transformToResponseDto over the row with its task included
transformToResponseDto(activity, rows) ==
  [id |-> activity.id,
   taskId |-> activity.taskId,
   taskTitle |-> IF activity.taskId \in DOMAIN rows
                    /\ Truthy(rows[activity.taskId].title)
                 THEN rows[activity.taskId].title
                 ELSE "[Deleted Task]",
   userId |-> activity.userId,
   action |-> activity.action,
   changes |-> IF activity.changes.isNull THEN Undefined
               ELSE activity.changes.map,
   createdAt |-> activity.id]

\* activitiesFindAll with the pages counted from 0: page * perPage is skipped
activitiesFindAllFromPageZero(acts, rows, filterDto) ==
  LET page == IF filterDto.page = 0 THEN DefaultPage ELSE filterDto.page
      perPage == IF filterDto.perPage = 0 THEN DefaultPerPage ELSE filterDto.perPage
      skip == page * perPage
      where == buildActivityWhereClause(filterDto)
      found == SelectSeq(acts, LAMBDA a : ActivityMatches(a, where))
      total == Len(found)
      desc == [k \in 1..total |-> found[total + 1 - k]]
      last == IF skip + perPage < total THEN skip + perPage ELSE total
  IN  [data |-> [k \in 1..(IF last > skip THEN last - skip ELSE 0) |->
                   transformToResponseDto(desc[skip + k], rows)],
       meta |-> [total |-> total, page |-> page, perPage |-> perPage,
                 totalPages |-> (total + perPage - 1) \div perPage]]

\* ActivitiesService.findAll: the page of matching records, newest first, and
\* the totals
activitiesFindAll(acts, rows, filterDto) ==
  LET page == IF filterDto.page = 0 THEN DefaultPage ELSE filterDto.page
      perPage == IF filterDto.perPage = 0 THEN DefaultPerPage ELSE filterDto.perPage
      skip == (page - 1) * perPage
      where == buildActivityWhereClause(filterDto)
      found == SelectSeq(acts, LAMBDA a : ActivityMatches(a, where))
      total == Len(found)
      desc == [k \in 1..total |-> found[total + 1 - k]]
      last == IF skip + perPage < total THEN skip + perPage ELSE total
  IN  [data |-> [k \in 1..(IF last > skip THEN last - skip ELSE 0) |->
                   transformToResponseDto(desc[skip + k], rows)],
       meta |-> [total |-> total, page |-> page, perPage |-> perPage,
                 totalPages |-> (total + perPage - 1) \div perPage]]

\* ActivitiesService.findByTaskId
findByTaskId(acts, rows, taskId, filterDto) ==
  activitiesFindAll(acts, rows, [filterDto EXCEPT !.taskId = taskId])

\* ---------------------------------------------------------------- state
VARIABLES
  db,          \* the Task table: id -> row
  cache,       \* the cache store: key -> value
  activities,  \* the TaskActivity table, in insertion order
  emails,      \* the assignment notifications in flight
  nextId,      \* the id the next created task gets
  work,        \* the work that can still be admitted
  flaky,       \* whether store, persistence and activity calls can fail for
               \* reasons outside the program in this run
  req,         \* per process: the request it serves and where it stands
  jobs,        \* the activity logging the interceptor has scheduled with
               \* setImmediate and not yet run
  scan,        \* whether the cache store has keys(pattern)
  pure,        \* a call of a function that reads no state: its name, its
               \* argument and, once it has been applied, its result
  lastFind,    \* history: the last findOne served through the cache, while
               \* its item entry and its task are left alone
  pred,        \* history, per process: the result of the findOne call that
               \* returned just before this one started, for the same id
  clean        \* history, per process: no mutation has been in progress
               \* since this request started

vars == <<db, cache, activities, emails, nextId, work, flaky, req, jobs, scan, pure,
          lastFind, pred, clean>>

NoCall == [fn |-> "none", arg |-> <<>>, out |-> <<>>]

Idle ==
  [pc |-> "idle", op |-> "none", id |-> 0, filter |-> <<>>,
   dto |-> EmptyUpdate, key |-> <<>>, val |-> <<>>, existing |-> NoTask,
   task |-> NoTask, keys |-> {}, invItem |-> FALSE, invList |-> "done",
   result |-> <<"none">>, ev |-> {}, http |-> "none", orig |-> NoTask]

NoFind == [id |-> 0, val |-> <<>>]

Mutations == { "create", "update", "remove" }

\* the operations of the cache service that are called on their own
CacheReads == { "getCachedItem", "getCachedList" }
CacheWrites == { "cacheItem", "cacheList" }
CacheInvalidations ==
  { "invalidateItemCache", "invalidateListCaches", "invalidateAllCaches",
    "clearAllCaches" }

Init ==
  /\ db = [i \in {1} |-> SeedTask]
  /\ cache = [k \in {} |-> <<>>]
  /\ activities = <<>>
  /\ emails = {}
  /\ nextId = 2
  /\ work = MaxWork
  /\ flaky = TRUE
  /\ req = [p \in Procs |-> Idle]
  /\ jobs = <<>>
  /\ scan = TRUE
  /\ pure = NoCall
  /\ lastFind = NoFind
  /\ pred = [p \in Procs |-> <<>>]
  /\ clean = [p \in Procs |-> TRUE]

\* ------------------------------------------------------- store operations
CachePut(c, key, v) ==
  [k \in DOMAIN c \cup {key} |-> IF k = key THEN v ELSE c[k]]

CacheDel(c, key) == [k \in DOMAIN c \ {key} |-> c[k]]

\* ListKeys with the pattern `*:list:*`: the list keys of every family
ListKeysOfEveryFamily(c, prefix) == { k \in DOMAIN c : k[2] = "list" }

\* store.keys(`${prefix}:list:*`)
ListKeys(c, prefix) == { k \in DOMAIN c : k[1] = prefix /\ k[2] = "list" }

\* store.keys(`${prefix}:*`)
PrefixKeys(c, prefix) == { k \in DOMAIN c : k[1] = prefix }

Note(r, tag) == [r EXCEPT !.ev = @ \cup {tag}]

\* the request ends: its result is what the caller gets
Finish(r, result) ==
  [r EXCEPT !.pc = "done", !.result = result, !.val = <<>>, !.keys = {},
            !.invItem = FALSE, !.invList = "done"]

\* FindReturns with remove going from the lookup straight to the delete
FindReturnsThenDeletes(r, v) ==
  CASE r.op \in {"findAll", "findOne"} -> Finish(r, v)
    [] r.op = "update" ->
         [r EXCEPT !.pc = "updateTask", !.existing = v[2], !.val = <<>>]
    [] r.op = "remove" ->
         [r EXCEPT !.pc = "deleteTask", !.existing = v[2], !.val = <<>>]

\* findOne / findAll hand back v: to the caller, or to update / remove
FindReturns(r, v) ==
  CASE r.op \in {"findAll", "findOne"} -> Finish(r, v)
    [] r.op = "update" ->
         [r EXCEPT !.pc = "updateTask", !.existing = v[2], !.val = <<>>]
    [] r.op = "remove" ->
         [r EXCEPT !.pc = "logTaskDeleted", !.existing = v[2], !.val = <<>>]

\* the queryFn handed to wrapTaskQuery, and the fallback query: the list, the
\* task, or NotFound
QueryResult(r, rows) ==
  IF r.op = "findAll" THEN <<"list", executeTaskListQuery(rows, r.filter)>>
  ELSE IF executeTaskQuery(rows, r.id).id = 0 THEN <<"NotFound">>
  ELSE <<"task", executeTaskQuery(rows, r.id)>>

\* ---------------------------------------------------------------- history
\* process p takes a request in this step
Begins(p) == req[p].pc = "idle" /\ req'[p].pc # "idle"

\* a mutation, or a direct write of the cache, is being served by process q
InMutation(q) ==
  req[q].op \in Mutations \cup CacheWrites /\ req[q].pc \notin {"idle", "done"}

\* this step is a step of a mutation of task i, or changes the item entry of i
Disturbed(i) ==
  LET k == generateItemCacheKey(TaskPrefix, i) IN
  \/ (k \in DOMAIN cache) # (k \in DOMAIN cache')
  \/ k \in DOMAIN cache /\ k \in DOMAIN cache' /\ cache[k] # cache'[k]
  \/ \E q \in Procs :
       /\ req'[q] # req[q]
       /\ \/ InMutation(q) /\ req[q].id = i
          \/ Begins(q) /\ req'[q].op \in Mutations /\ req'[q].id = i

\* the findOne calls that return a task through the cache in this step
ServedNow ==
  { p \in Procs : /\ req[p].op = "findOne"
                  /\ req[p].pc # "done"
                  /\ req'[p].pc = "done"
                  /\ req'[p].result[1] = "task"
                  /\ "direct" \notin req'[p].ev }

\* ActivityLoggingInterceptor.extractUserId
extractUserId(header) == IF Truthy(header) THEN header ELSE "system"

\* ActivityLoggingInterceptor.detectChanges: body fields that are defined and
\* not strictly equal to the original's; a dueDate string never equals the
\* Date (or null) of the row, and the body of an update carries no projectId
detectChanges(original, updated) ==
  LET tracked == { "title", "description", "status", "priority", "assigneeId",
                   "dueDate" }
      changed == { f \in tracked :
                     /\ updated[f] # Undefined
                     /\ f = "dueDate" \/ updated[f] # original[f] }
  IN  [f \in changed |-> [from |-> original[f], to |-> updated[f]]]

\* the logging the interceptor schedules for what process p does in this step:
\* for DELETE when the request comes in, before the handler runs; for POST
\* and PUT when the handler has returned its response (not when it has thrown)
Scheduled(p) ==
  IF req'[p].http = "none" THEN <<>>
  ELSE IF Begins(p) /\ req'[p].op = "remove"
  THEN << [method |-> "DELETE", taskId |-> req'[p].id,
           userId |-> extractUserId(req'[p].http), orig |-> NoTask,
           body |-> EmptyUpdate, response |-> 0] >>
  ELSE IF /\ req[p].pc # "done" /\ req'[p].pc = "done"
          /\ req'[p].op \in {"create", "update"}
          /\ req'[p].result[1] = "task"
  THEN << [method |-> IF req'[p].op = "create" THEN "POST" ELSE "PUT",
           taskId |-> IF req'[p].op = "create" THEN 0 ELSE req'[p].id,
           userId |-> extractUserId(req'[p].http), orig |-> req'[p].orig,
           body |-> IF req'[p].op = "create" THEN EmptyUpdate ELSE req'[p].dto,
           response |-> req'[p].result[2].id] >>
  ELSE <<>>

RECURSIVE ScheduledBy(_)
ScheduledBy(ps) ==
  IF ps = {} THEN <<>>
  ELSE LET p == CHOOSE q \in ps : \A o \in ps : q <= o
       IN  Scheduled(p) \o ScheduledBy(ps \ {p})

\* ActivityLoggingInterceptor.intercept around the step of the handler
Intercept == jobs' = jobs \o ScheduledBy(Procs)

\* the history variables follow the step the action has just described
Observe ==
  /\ Intercept
  /\ flaky' = flaky
  /\ scan' = scan
  /\ pure' = pure
  /\ lastFind' =
       IF ServedNow # {}
       THEN LET p == CHOOSE q \in ServedNow : TRUE
            IN [id |-> req[p].id, val |-> req'[p].result]
       ELSE IF lastFind.id # 0 /\ Disturbed(lastFind.id) THEN NoFind
       ELSE lastFind
  /\ pred' =
       [p \in Procs |->
          IF req'[p].pc = "idle" THEN <<>>
          ELSE IF Begins(p)
          THEN IF req'[p].op = "findOne" /\ lastFind.id = req'[p].id
               THEN lastFind.val ELSE <<>>
          ELSE IF req[p].pc = "done" \/ req'[p].pc = "done" THEN pred[p]
          ELSE IF lastFind' = lastFind THEN pred[p]
          ELSE <<>>]
  /\ clean' =
       [p \in Procs |->
          IF req'[p].pc = "idle" THEN TRUE
          ELSE IF Begins(p) THEN \A q \in Procs \ {p} : ~InMutation(q)
          ELSE clean[p] /\ ~\E q \in Procs \ {p} :
                                Begins(q) /\ req'[q].op \in Mutations \cup CacheWrites]

\* process p goes on as r
Step(p, r) == req' = [req EXCEPT ![p] = r]

\* the caller has its result: the process is free for the next request
Return(p) ==
  /\ req[p].pc = "done"
  /\ req' = [req EXCEPT ![p] = Idle]
  /\ UNCHANGED <<db, cache, activities, emails, nextId, work>>
  /\ Observe

Busy == { q \in Procs : req[q].pc # "idle" }

\* a request is taken by the first free process; one that starts while others
\* are being served counts once more for each of them
Begin(p, r) ==
  /\ req[p].pc = "idle"
  /\ \A q \in Procs : q < p => req[q].pc # "idle"
  /\ 1 + Cardinality(Busy) <= work
  /\ work' = work - (1 + Cardinality(Busy))
  /\ req' = [req EXCEPT ![p] = r]
  /\ UNCHANGED <<db, cache, activities, emails, nextId>>
  /\ Observe

\* --------------------------------------------------------------- requests
StartFindAll(p, filterDto) ==
  Begin(p, [Idle EXCEPT !.pc = "get", !.op = "findAll", !.filter = filterDto,
                        !.key = generateListCacheKey(TaskPrefix, filterDto)])

StartFindOne(p, id) ==
  Begin(p, [Idle EXCEPT !.pc = "get", !.op = "findOne", !.id = id,
                        !.key = generateItemCacheKey(TaskPrefix, id)])

StartCreate(p, dto) ==
  /\ nextId <= MaxTasks
  /\ Begin(p, [Idle EXCEPT !.pc = "createTask", !.op = "create", !.dto = dto])

StartUpdate(p, id, dto) ==
  Begin(p, [Idle EXCEPT !.pc = "get", !.op = "update", !.id = id, !.dto = dto,
                        !.key = generateItemCacheKey(TaskPrefix, id)])

StartRemove(p, id) ==
  Begin(p, [Idle EXCEPT !.pc = "get", !.op = "remove", !.id = id,
                        !.key = generateItemCacheKey(TaskPrefix, id)])

\* WrapGet with the lookup broken: the entry under the key is never found, so
\* every call runs queryFn
WrapGetMisses(p) ==
  /\ req[p].pc = "get"
  /\ \/ flaky /\ Step(p, [Note(req[p], "cacheFail") EXCEPT !.pc = "fallback"])
     \/ Step(p, [Note(req[p], "cacheOk") EXCEPT !.pc = "query"])
  /\ UNCHANGED <<db, cache, activities, emails, nextId, work>>
  /\ Observe

\* ------------------------------------------ requests through the controller
\* POST /tasks
HttpPost(p, header, dto) ==
  /\ nextId <= MaxTasks
  /\ Begin(p, [Idle EXCEPT !.pc = "createTask", !.op = "create", !.dto = dto,
                           !.http = header])

\* PUT /tasks/:id: the interceptor reads the row before the handler runs, a
\* failing read counting as no row
HttpPut(p, header, id, dto) ==
  \E orig \in {executeTaskQuery(db, id)} \cup (IF flaky THEN {NoTask} ELSE {}) :
    Begin(p, [Idle EXCEPT !.pc = "get", !.op = "update", !.id = id, !.dto = dto,
                          !.key = generateItemCacheKey(TaskPrefix, id),
                          !.http = header, !.orig = orig])

\* DELETE /tasks/:id
HttpDelete(p, header, id) ==
  Begin(p, [Idle EXCEPT !.pc = "get", !.op = "remove", !.id = id,
                        !.key = generateItemCacheKey(TaskPrefix, id),
                        !.http = header])

\* the setImmediate callback of the interceptor: handleActivityLogging for
\* POST and PUT, logTaskDeleted for DELETE, inside try/catch
HandleActivityLogging(i) ==
  LET j == jobs[i]
      none == [ok |-> TRUE, acts |-> activities]
      logged ==
        CASE j.method = "DELETE" ->
               logTaskDeleted(activities, db, j.taskId, j.userId)
          [] j.method = "POST" ->
               IF j.response # 0
               THEN logTaskCreated(activities, db, j.response, j.userId)
               ELSE none
          [] j.method = "PUT" ->
               IF j.orig.id # 0 /\ DOMAIN detectChanges(j.orig, j.body) # {}
               THEN logTaskUpdated(activities, db, j.taskId, j.userId,
                                   [isNull |-> FALSE,
                                    map |-> detectChanges(j.orig, j.body)])
               ELSE none
  IN
  /\ i \in 1..Len(jobs)
  /\ \/ logged.ok /\ activities' = logged.acts
     \/ (flaky \/ ~logged.ok) /\ activities' = activities
  /\ jobs' = [k \in 1..(Len(jobs) - 1) |-> IF k < i THEN jobs[k] ELSE jobs[k + 1]]
  /\ UNCHANGED <<db, cache, emails, nextId, work, flaky, req, scan, pure, lastFind,
                 pred, clean>>

\* ------------------------------------------- wrapQuery (cacheManager.wrap)
\* the store is asked for the key: a hit is returned as it is, a miss runs
\* queryFn, a failing store rejects the wrap
WrapGet(p) ==
  /\ req[p].pc = "get"
  /\ \/ flaky /\ Step(p, [Note(req[p], "cacheFail") EXCEPT !.pc = "fallback"])
     \/ /\ req[p].key \in DOMAIN cache
        /\ Step(p, FindReturns(Note(Note(req[p], "cacheOk"), "hit"), cache[req[p].key]))
     \/ /\ req[p].key \notin DOMAIN cache
        /\ Step(p, [Note(req[p], "cacheOk") EXCEPT !.pc = "query"])
  /\ UNCHANGED <<db, cache, activities, emails, nextId, work>>
  /\ Observe

\* WrapQuery without the null check: a missing row is handed to the wrap as a
\* value to store
WrapQueryKeepsNull(p) ==
  /\ req[p].pc = "query"
  /\ \/ flaky /\ Step(p, [Note(req[p], "dbFail") EXCEPT !.pc = "fallback"])
     \/ Step(p, [Note(req[p], "query") EXCEPT
                   !.pc = "set",
                   !.val = IF req[p].op = "findAll" THEN QueryResult(req[p], db)
                           ELSE <<"task", executeTaskQuery(db, req[p].id)>>])
  /\ UNCHANGED <<db, cache, activities, emails, nextId, work>>
  /\ Observe

\* queryFn inside the wrap: NotFound passes through findOne's catch, any other
\* rejection sends findOne / findAll to the fallback
WrapQuery(p) ==
  /\ req[p].pc = "query"
  /\ \/ flaky /\ Step(p, [Note(req[p], "dbFail") EXCEPT !.pc = "fallback"])
     \/ /\ QueryResult(req[p], db)[1] = "NotFound"
        /\ Step(p, Finish(Note(req[p], "query"), <<"NotFound">>))
     \/ /\ QueryResult(req[p], db)[1] # "NotFound"
        /\ Step(p, [Note(req[p], "query") EXCEPT !.pc = "set",
                                                 !.val = QueryResult(req[p], db)])
  /\ UNCHANGED <<db, cache, activities, emails, nextId, work>>
  /\ Observe

\* WrapSet as it would be under a per-key lock: the value of a read that
\* missed is dropped when another read has filled the key in the meantime
WrapSetIfAbsent(p) ==
  /\ req[p].pc = "set"
  /\ \/ /\ flaky
        /\ Step(p, [Note(req[p], "cacheFail") EXCEPT !.pc = "fallback", !.val = <<>>])
        /\ cache' = cache
     \/ /\ req[p].key \notin DOMAIN cache
        /\ cache' = CachePut(cache, req[p].key, req[p].val)
        /\ Step(p, FindReturns(Note(req[p], "cacheOk"), req[p].val))
     \/ /\ req[p].key \in DOMAIN cache
        /\ cache' = cache
        /\ Step(p, FindReturns(Note(req[p], "cacheOk"), cache[req[p].key]))
  /\ UNCHANGED <<db, activities, emails, nextId, work>>
  /\ Observe

\* the wrap stores what queryFn returned under the key, with the ttl
WrapSet(p) ==
  /\ req[p].pc = "set"
  /\ \/ /\ flaky
        /\ Step(p, [Note(req[p], "cacheFail") EXCEPT !.pc = "fallback", !.val = <<>>])
        /\ cache' = cache
     \/ /\ cache' = CachePut(cache, req[p].key, req[p].val)
        /\ Step(p, FindReturns(Note(req[p], "cacheOk"), req[p].val))
  /\ UNCHANGED <<db, activities, emails, nextId, work>>
  /\ Observe

\* Fallback without the catch: the wrapper's failure reaches the caller
FallbackRaises(p) ==
  /\ req[p].pc = "fallback"
  /\ Step(p, Finish(req[p], <<"CacheError">>))
  /\ UNCHANGED <<db, cache, activities, emails, nextId, work>>
  /\ Observe

\* the catch of findAll / findOne: the query is run directly
Fallback(p) ==
  /\ req[p].pc = "fallback"
  /\ \/ flaky /\ Step(p, Finish(Note(req[p], "dbFail"), <<"DbError">>))
     \/ /\ QueryResult(req[p], db)[1] = "NotFound"
        /\ Step(p, Finish(Note(req[p], "direct"), <<"NotFound">>))
     \/ /\ QueryResult(req[p], db)[1] # "NotFound"
        /\ Step(p, FindReturns(Note(req[p], "direct"), QueryResult(req[p], db)))
  /\ UNCHANGED <<db, cache, activities, emails, nextId, work>>
  /\ Observe

\* ------------------------------------------------------------ notifications
\* emailService.sendTaskAssignmentNotification(...) is called and not awaited:
\* the notification is in flight when the caller goes on
Dispatch(mails, t) ==
  mails \cup { [task |-> t.id, to |-> t.assigneeId, title |-> t.title] }

\* the promise resolves
EmailSent(e) ==
  /\ e \in emails
  /\ emails' = emails \ {e}
  /\ UNCHANGED <<db, cache, activities, nextId, work, req>>
  /\ Observe

\* EmailFailed as it would be were the notification awaited without a catch:
\* the rejection becomes the result of the request that sent it
EmailFailedRaises(e) ==
  /\ e \in emails
  /\ emails' = emails \ {e}
  /\ req' = [p \in Procs |->
               IF req[p].pc = "done" /\ req[p].task.id = e.task
               THEN [req[p] EXCEPT !.result = <<"EmailError">>] ELSE req[p]]
  /\ UNCHANGED <<db, cache, activities, nextId, work>>
  /\ Observe

\* the promise rejects: .catch logs the error
EmailFailed(e) ==
  /\ e \in emails
  /\ emails' = emails \ {e}
  /\ UNCHANGED <<db, cache, activities, nextId, work, req>>
  /\ Observe

\* ------------------------------------------------------ cache invalidation
\* AfterInvalidate without Promise.all: the caller goes on as soon as the item
\* key has been dealt with, whatever the list invalidation is doing
AfterInvalidateItemOnly(r) ==
  IF r.invItem THEN r
  ELSE CASE r.op = "create" -> [Note(r, "invalidated") EXCEPT !.pc = "logTaskCreated"]
         [] r.op = "update" -> [Note(r, "invalidated") EXCEPT !.pc = "logTaskUpdated"]
         [] r.op = "remove" -> Finish(Note(r, "invalidated"), <<"ack">>)
         [] r.op \in CacheInvalidations -> Finish(Note(r, "invalidated"), <<"void">>)

\* where a mutation, or a call of an invalidation, goes once the invalidation
\* has finished: Promise.all resolves when both of its parts have
AfterInvalidate(r) ==
  IF r.invItem \/ r.invList # "done" THEN r
  ELSE CASE r.op = "create" -> [Note(r, "invalidated") EXCEPT !.pc = "logTaskCreated"]
         [] r.op = "update" -> [Note(r, "invalidated") EXCEPT !.pc = "logTaskUpdated"]
         [] r.op = "remove" -> Finish(Note(r, "invalidated"), <<"ack">>)
         [] r.op \in CacheInvalidations -> Finish(Note(r, "invalidated"), <<"void">>)

\* InvalidateItemCache without the catch: a failing del rejects the mutation
InvalidateItemCacheRaises(p) ==
  /\ req[p].pc = "invalidate"
  /\ req[p].invItem
  /\ \/ /\ cache' = CacheDel(cache, generateItemCacheKey(TaskPrefix, req[p].id))
        /\ Step(p, AfterInvalidate([Note(req[p], "cacheOk") EXCEPT !.invItem = FALSE]))
     \/ /\ flaky
        /\ cache' = cache
        /\ Step(p, Finish(Note(req[p], "cacheFail"), <<"CacheError">>))
  /\ UNCHANGED <<db, activities, emails, nextId, work>>
  /\ Observe

\* invalidateItemCache: del of the item key, a failure logged and dropped
InvalidateItemCache(p) ==
  /\ req[p].pc = "invalidate"
  /\ req[p].invItem
  /\ \/ /\ cache' = CacheDel(cache, generateItemCacheKey(TaskPrefix, req[p].id))
        /\ Step(p, AfterInvalidate([Note(req[p], "cacheOk") EXCEPT !.invItem = FALSE]))
     \/ /\ flaky
        /\ cache' = cache
        /\ Step(p, AfterInvalidate([Note(req[p], "cacheFail") EXCEPT !.invItem = FALSE]))
  /\ UNCHANGED <<db, activities, emails, nextId, work>>
  /\ Observe

\* invalidateListCaches and clearAllCaches: store.keys(pattern), where the
\* store has it
InvalidateListKeys(p) ==
  /\ req[p].pc = "invalidate"
  /\ ~req[p].invItem
  /\ req[p].invList = "scan"
  /\ \/ /\ scan
        /\ LET keys == IF req[p].op = "clearAllCaches"
                       THEN PrefixKeys(cache, TaskPrefix)
                       ELSE ListKeys(cache, TaskPrefix)
           IN  Step(p, AfterInvalidate(
                         [Note(req[p], "cacheOk") EXCEPT
                            !.keys = keys,
                            !.invList = IF keys = {} THEN "done" ELSE "del"]))
     \/ /\ scan
        /\ flaky
        /\ Step(p, AfterInvalidate([Note(req[p], "cacheFail") EXCEPT !.invList = "done"]))
     \/ /\ ~scan
        /\ Step(p, AfterInvalidate([req[p] EXCEPT !.invList = "done"]))
  /\ UNCHANGED <<db, cache, activities, emails, nextId, work>>
  /\ Observe

\* invalidateListCaches and clearAllCaches: the del of one scanned key; a
\* failure ends the loop
InvalidateListDel(p) ==
  /\ req[p].pc = "invalidate"
  /\ req[p].invList = "del"
  /\ \/ \E k \in req[p].keys :
          /\ cache' = CacheDel(cache, k)
          /\ Step(p, AfterInvalidate(
                       [Note(req[p], "cacheOk") EXCEPT !.keys = @ \ {k},
                                      !.invList = IF req[p].keys = {k}
                                                  THEN "done" ELSE "del"]))
     \/ /\ flaky
        /\ cache' = cache
        /\ Step(p, AfterInvalidate(
                     [Note(req[p], "cacheFail") EXCEPT !.keys = {}, !.invList = "done"]))
  /\ UNCHANGED <<db, activities, emails, nextId, work>>
  /\ Observe

\* ------------------------------------------------------------------ create
CreateTask(p) ==
  /\ req[p].pc = "createTask"
  /\ \/ /\ flaky \/ nextId > MaxTasks
        /\ Step(p, Finish(Note(req[p], "dbFail"), <<"DbError">>))
        /\ UNCHANGED <<db, nextId>>
     \/ /\ nextId <= MaxTasks
        /\ db' = [i \in DOMAIN db \cup {nextId} |->
                    IF i = nextId THEN createTask(nextId, req[p].dto) ELSE db[i]]
        /\ nextId' = nextId + 1
        /\ Step(p, [req[p] EXCEPT !.pc = "cacheTask", !.id = nextId,
                                  !.task = createTask(nextId, req[p].dto)])
  /\ UNCHANGED <<cache, activities, emails, work>>
  /\ Observe

\* CacheTask with create logging the activity next, the list caches left for
\* later
CacheTaskThenLogs(p) ==
  /\ req[p].pc = "cacheTask"
  /\ \/ /\ cache' = CachePut(cache, generateItemCacheKey(TaskPrefix, req[p].task.id),
                             <<"task", req[p].task>>)
        /\ Step(p, [Note(req[p], "cacheOk") EXCEPT !.pc = "logTaskCreated"])
     \/ /\ flaky
        /\ cache' = cache
        /\ Step(p, [Note(req[p], "cacheFail") EXCEPT !.pc = "logTaskCreated"])
  /\ UNCHANGED <<db, activities, emails, nextId, work>>
  /\ Observe

\* cacheTask (cacheItem): set of the item key, a failure logged and dropped;
\* then invalidateListCaches starts
CacheTask(p) ==
  /\ req[p].pc = "cacheTask"
  /\ \/ /\ cache' = CachePut(cache, generateItemCacheKey(TaskPrefix, req[p].task.id),
                             <<"task", req[p].task>>)
        /\ Step(p, [Note(req[p], "cacheOk") EXCEPT !.pc = "invalidate", !.invList = "scan"])
     \/ /\ flaky
        /\ cache' = cache
        /\ Step(p, [Note(req[p], "cacheFail") EXCEPT !.pc = "invalidate", !.invList = "scan"])
  /\ UNCHANGED <<db, activities, emails, nextId, work>>
  /\ Observe

\* logTaskCreated inside try/catch, then the notification and the return
LogTaskCreated(p) ==
  LET r == req[p]
      userId == IF Truthy(r.dto.assigneeId) THEN r.dto.assigneeId ELSE r.task.projectId
      logged == logTaskCreated(activities, db, r.task.id, userId)
      sends == r.task.assigneeId # Null
      out == Finish(r, <<"task", r.task>>)
  IN
  /\ r.pc = "logTaskCreated"
  /\ \/ /\ logged.ok
        /\ activities' = logged.acts
        /\ Step(p, out)
     \/ /\ flaky \/ ~logged.ok
        /\ activities' = activities
        /\ Step(p, Note(out, "logFail"))
  /\ emails' = IF sends THEN Dispatch(emails, r.task) ELSE emails
  /\ UNCHANGED <<db, cache, nextId, work>>
  /\ Observe

\* ------------------------------------------------------------------ update
\* UpdateTask with the write inside a catch that logs and goes on: the update
\* returns the task as it was fetched
UpdateTaskAbsorbs(p) ==
  /\ req[p].pc = "updateTask"
  /\ \/ /\ flaky \/ req[p].id \notin DOMAIN db
        /\ Step(p, [Note(req[p], "dbFail") EXCEPT !.pc = "invalidate",
                                                 !.invItem = TRUE,
                                                 !.invList = "scan",
                                                 !.task = req[p].existing])
        /\ db' = db
     \/ /\ req[p].id \in DOMAIN db
        /\ db' = [db EXCEPT ![req[p].id] = updateTask(@, req[p].dto)]
        /\ Step(p, [req[p] EXCEPT !.pc = "invalidate", !.invItem = TRUE,
                                  !.invList = "scan",
                                  !.task = updateTask(db[req[p].id], req[p].dto)])
  /\ UNCHANGED <<cache, activities, emails, nextId, work>>
  /\ Observe

UpdateTask(p) ==
  /\ req[p].pc = "updateTask"
  /\ \/ /\ flaky \/ req[p].id \notin DOMAIN db
        /\ Step(p, Finish(Note(req[p], "dbFail"), <<"DbError">>))
        /\ db' = db
     \/ /\ req[p].id \in DOMAIN db
        /\ db' = [db EXCEPT ![req[p].id] = updateTask(@, req[p].dto)]
        /\ Step(p, [req[p] EXCEPT !.pc = "invalidate", !.invItem = TRUE,
                                  !.invList = "scan",
                                  !.task = updateTask(db[req[p].id], req[p].dto)])
  /\ UNCHANGED <<cache, activities, emails, nextId, work>>
  /\ Observe

\* LogTaskUpdated with the notification sent for every update that names an
\* assignee, whether or not it is the one the task already had
LogTaskUpdatedNotifiesAlways(p) ==
  LET r == req[p]
      userId == IF Truthy(r.dto.assigneeId) THEN r.dto.assigneeId
                ELSE IF Truthy(r.existing.assigneeId) THEN r.existing.assigneeId
                ELSE r.existing.projectId
      changes == detectTaskChanges(r.existing, newTaskForComparison(r.existing, r.dto))
      logged == logTaskUpdated(activities, db, r.task.id, userId,
                               [isNull |-> FALSE, map |-> changes])
      sends == Truthy(r.dto.assigneeId)
      out == Finish(r, <<"task", r.task>>)
  IN
  /\ r.pc = "logTaskUpdated"
  /\ \/ /\ DOMAIN changes # {}
        /\ logged.ok
        /\ activities' = logged.acts
        /\ Step(p, out)
     \/ /\ DOMAIN changes # {}
        /\ flaky \/ ~logged.ok
        /\ activities' = activities
        /\ Step(p, Note(out, "logFail"))
     \/ /\ DOMAIN changes = {}
        /\ activities' = activities
        /\ Step(p, out)
  /\ emails' = IF sends THEN Dispatch(emails, r.task) ELSE emails
  /\ UNCHANGED <<db, cache, nextId, work>>
  /\ Observe

\* the diff, logTaskUpdated inside try/catch, then the notification and the return
LogTaskUpdated(p) ==
  LET r == req[p]
      userId == IF Truthy(r.dto.assigneeId) THEN r.dto.assigneeId
                ELSE IF Truthy(r.existing.assigneeId) THEN r.existing.assigneeId
                ELSE r.existing.projectId
      changes == detectTaskChanges(r.existing, newTaskForComparison(r.existing, r.dto))
      logged == logTaskUpdated(activities, db, r.task.id, userId,
                               [isNull |-> FALSE, map |-> changes])
      sends == Truthy(r.dto.assigneeId) /\ r.dto.assigneeId # r.existing.assigneeId
      out == Finish(r, <<"task", r.task>>)
  IN
  /\ r.pc = "logTaskUpdated"
  /\ \/ /\ DOMAIN changes # {}
        /\ logged.ok
        /\ activities' = logged.acts
        /\ Step(p, out)
     \/ /\ DOMAIN changes # {}
        /\ flaky \/ ~logged.ok
        /\ activities' = activities
        /\ Step(p, Note(out, "logFail"))
     \/ /\ DOMAIN changes = {}
        /\ activities' = activities
        /\ Step(p, out)
  /\ emails' = IF sends THEN Dispatch(emails, r.task) ELSE emails
  /\ UNCHANGED <<db, cache, nextId, work>>
  /\ Observe

\* ------------------------------------------------------------------ remove
\* LogTaskDeleted without the try/catch: a failing activity write rejects
\* the remove before the delete
LogTaskDeletedRaises(p) ==
  LET r == req[p]
      userId == IF Truthy(r.existing.assigneeId) THEN r.existing.assigneeId
                ELSE r.existing.projectId
      logged == logTaskDeleted(activities, db, r.id, userId)
  IN
  /\ r.pc = "logTaskDeleted"
  /\ \/ /\ logged.ok
        /\ activities' = logged.acts
        /\ Step(p, [r EXCEPT !.pc = "deleteTask"])
     \/ /\ flaky \/ ~logged.ok
        /\ activities' = activities
        /\ Step(p, Finish(Note(r, "logFail"), <<"ActivityError">>))
  /\ UNCHANGED <<db, cache, emails, nextId, work>>
  /\ Observe

\* logTaskDeleted inside try/catch, before the delete
LogTaskDeleted(p) ==
  LET r == req[p]
      userId == IF Truthy(r.existing.assigneeId) THEN r.existing.assigneeId
                ELSE r.existing.projectId
      logged == logTaskDeleted(activities, db, r.id, userId)
  IN
  /\ r.pc = "logTaskDeleted"
  /\ \/ /\ logged.ok
        /\ activities' = logged.acts
        /\ Step(p, [r EXCEPT !.pc = "deleteTask"])
     \/ /\ flaky \/ ~logged.ok
        /\ activities' = activities
        /\ Step(p, [Note(r, "logFail") EXCEPT !.pc = "deleteTask"])
  /\ UNCHANGED <<db, cache, emails, nextId, work>>
  /\ Observe

DeleteTask(p) ==
  /\ req[p].pc = "deleteTask"
  /\ \/ /\ flaky \/ req[p].id \notin DOMAIN db
        /\ Step(p, Finish(Note(req[p], "dbFail"), <<"DbError">>))
        /\ UNCHANGED <<db, activities>>
     \/ /\ req[p].id \in DOMAIN db
        /\ db' = [i \in DOMAIN db \ {req[p].id} |-> db[i]]
        /\ activities' = DetachActivities(activities, req[p].id)
        /\ Step(p, [req[p] EXCEPT !.pc = "invalidate", !.invItem = TRUE,
                                  !.invList = "scan"])
  /\ UNCHANGED <<cache, emails, nextId, work>>
  /\ Observe

\* ------------------------------------------------------------- environment
\* an entry reaches its ttl
Expire(key) ==
  /\ key \in DOMAIN cache
  /\ cache' = CacheDel(cache, key)
  /\ UNCHANGED <<db, activities, emails, nextId, work, req>>
  /\ Observe

\* -------------------------------------------------------------------- spec
Next ==
  \/ \E p \in Procs :
       \/ \E f \in Filters : StartFindAll(p, f)
       \/ \E id \in TaskIds : StartFindOne(p, id)
       \/ \E dto \in CreateDtos : StartCreate(p, dto)
       \/ \E id \in TaskIds, dto \in UpdateDtos : StartUpdate(p, id, dto)
       \/ \E id \in TaskIds : StartRemove(p, id)
       \/ WrapGet(p)
       \/ WrapQuery(p)
       \/ WrapSet(p)
       \/ Fallback(p)
       \/ CreateTask(p)
       \/ CacheTask(p)
       \/ InvalidateItemCache(p)
       \/ InvalidateListKeys(p)
       \/ InvalidateListDel(p)
       \/ LogTaskCreated(p)
       \/ UpdateTask(p)
       \/ LogTaskUpdated(p)
       \/ LogTaskDeleted(p)
       \/ DeleteTask(p)
       \/ Return(p)
  \/ \E e \in emails : EmailSent(e) \/ EmailFailed(e)
  \/ \E key \in DOMAIN cache : Expire(key)

Spec == Init /\ [][Next]_vars

\* the mutations as they arrive over HTTP, through TasksController and its
\* ActivityLoggingInterceptor, with nothing failing for outside reasons
HttpInit ==
  /\ db = [i \in {1} |-> SeedTask]
  /\ cache = [k \in {} |-> <<>>]
  /\ activities = <<>>
  /\ emails = {}
  /\ nextId = 2
  /\ work = HttpWork
  /\ flaky = FALSE
  /\ req = [p \in Procs |-> Idle]
  /\ jobs = <<>>
  /\ scan = TRUE
  /\ pure = NoCall
  /\ lastFind = NoFind
  /\ pred = [p \in Procs |-> <<>>]
  /\ clean = [p \in Procs |-> TRUE]

HttpNext ==
  \/ \E p \in Procs :
       \/ \E h \in Headers, dto \in CreateDtos : HttpPost(p, h, dto)
       \/ \E h \in Headers, id \in TaskIds, dto \in HttpUpdateDtos :
            HttpPut(p, h, id, dto)
       \/ \E h \in Headers, id \in TaskIds : HttpDelete(p, h, id)
       \/ WrapGet(p)
       \/ WrapQuery(p)
       \/ WrapSet(p)
       \/ CreateTask(p)
       \/ CacheTask(p)
       \/ InvalidateItemCache(p)
       \/ InvalidateListKeys(p)
       \/ LogTaskCreated(p)
       \/ UpdateTask(p)
       \/ LogTaskUpdated(p)
       \/ LogTaskDeleted(p)
       \/ DeleteTask(p)
       \/ Return(p)
  \/ \E i \in 1..Len(jobs) : HandleActivityLogging(i)
  \/ \E e \in emails : EmailSent(e)

HttpSpec == HttpInit /\ [][HttpNext]_vars

\* ------------------------------------------------ the cache service on its own
\* getCachedItem(id) / getCachedList(filterDto) is called
StartCacheRead(p, op, key) ==
  Begin(p, [Idle EXCEPT !.pc = "cacheGet", !.op = op, !.key = key])

\* cacheItem(id, item) / cacheList(filterDto, items) is called
StartCacheWrite(p, op, key, val) ==
  Begin(p, [Idle EXCEPT !.pc = "cacheSet", !.op = op, !.key = key, !.val = val])

\* invalidateItemCache(id), invalidateListCaches(), invalidateAllCaches(id) or
\* clearAllCaches() is called
StartCacheInvalidation(p, op, id) ==
  Begin(p, [Idle EXCEPT !.pc = "invalidate", !.op = op, !.id = id,
                        !.invItem = op \in {"invalidateItemCache", "invalidateAllCaches"},
                        !.invList = IF op = "invalidateItemCache" THEN "done"
                                    ELSE "scan"])

\* CacheGet without the catch: a failing get rejects the call
CacheGetRaises(p) ==
  /\ req[p].pc = "cacheGet"
  /\ \/ /\ req[p].key \in DOMAIN cache
        /\ Step(p, Finish(Note(req[p], "cacheOk"), cache[req[p].key]))
     \/ /\ req[p].key \notin DOMAIN cache
        /\ Step(p, Finish(Note(req[p], "cacheOk"), <<"undefined">>))
     \/ /\ flaky
        /\ Step(p, Finish(Note(req[p], "cacheFail"), <<"CacheError">>))
  /\ UNCHANGED <<db, cache, activities, emails, nextId, work>>
  /\ Observe

\* getCachedItem / getCachedList: cacheManager.get, null when it fails
CacheGet(p) ==
  /\ req[p].pc = "cacheGet"
  /\ \/ /\ req[p].key \in DOMAIN cache
        /\ Step(p, Finish(Note(req[p], "cacheOk"), cache[req[p].key]))
     \/ /\ req[p].key \notin DOMAIN cache
        /\ Step(p, Finish(Note(req[p], "cacheOk"), <<"undefined">>))
     \/ /\ flaky
        /\ Step(p, Finish(Note(req[p], "cacheFail"), <<"null">>))
  /\ UNCHANGED <<db, cache, activities, emails, nextId, work>>
  /\ Observe

\* cacheItem / cacheList: cacheManager.set, a failure logged and dropped
CacheSet(p) ==
  /\ req[p].pc = "cacheSet"
  /\ \/ /\ cache' = CachePut(cache, req[p].key, req[p].val)
        /\ Step(p, Finish(Note(req[p], "cacheOk"), <<"void">>))
     \/ /\ flaky
        /\ cache' = cache
        /\ Step(p, Finish(Note(req[p], "cacheFail"), <<"void">>))
  /\ UNCHANGED <<db, activities, emails, nextId, work>>
  /\ Observe

CacheInit ==
  /\ db = [i \in {1} |-> SeedTask]
  /\ cache = [k \in {} |-> <<>>]
  /\ activities = <<>>
  /\ emails = {}
  /\ nextId = 2
  /\ work = CacheWork
  /\ flaky = TRUE
  /\ req = [p \in Procs |-> Idle]
  /\ jobs = <<>>
  /\ scan \in BOOLEAN
  /\ pure = NoCall
  /\ lastFind = NoFind
  /\ pred = [p \in Procs |-> <<>>]
  /\ clean = [p \in Procs |-> TRUE]

CacheNext ==
  \E p \in Procs :
    \/ StartCacheRead(p, "getCachedItem", generateItemCacheKey(TaskPrefix, 1))
    \/ \E f \in Filters :
         StartCacheRead(p, "getCachedList", generateListCacheKey(TaskPrefix, f))
    \/ \E id \in TaskIds :
         StartCacheWrite(p, "cacheItem", generateItemCacheKey(TaskPrefix, id),
                         <<"task", [SeedTask EXCEPT !.id = id]>>)
    \/ StartCacheWrite(p, "cacheItem", generateItemCacheKey(ProjectPrefix, 1),
                       <<"project", ProjectId>>)
    \/ StartCacheWrite(p, "cacheList", generateListCacheKey(ProjectPrefix, <<>>),
                       <<"list", <<ProjectId>>>>)
    \/ \E f \in Filters :
         StartCacheWrite(p, "cacheList", generateListCacheKey(TaskPrefix, f),
                         <<"list", executeTaskListQuery(db, f)>>)
    \/ \E op \in CacheInvalidations : StartCacheInvalidation(p, op, 1)
    \/ CacheGet(p)
    \/ CacheSet(p)
    \/ InvalidateItemCache(p)
    \/ InvalidateListKeys(p)
    \/ InvalidateListDel(p)
    \/ Return(p)

CacheSpec == CacheInit /\ [][CacheNext]_vars

\* ------------------------------------------------ the functions on their own
\* the part of the state that a function call leaves alone
program == <<db, cache, activities, emails, nextId, work, flaky, req, jobs, scan,
             lastFind, pred, clean>>

\* filter objects: up to MaxFilterLen properties in the order of insertion,
\* no name twice, a value being a string or undefined
FilterFieldInputs == { "assigneeId", "priority", "status" }
FilterValueInputs == { "x", "y", Undefined }
FilterPairInputs ==
  { <<n, v>> : n \in FilterFieldInputs, v \in FilterValueInputs }
FilterInputs ==
  UNION { { f \in [1..n -> FilterPairInputs] :
              \A i, j \in 1..n : i # j => f[i][1] # f[j][1] } :
          n \in 0..MaxFilterLen }

\* ids as strings: short ones over characters that also occur in keys, and
\* ones that read like a digest
IdCharInputs == { ":", "l", "1" }
IdInputs ==
  UNION { [1..n -> IdCharInputs] : n \in 0..MaxIdLen }
    \cup { HexDigest(Md5(JsonStringify(f))) : f \in Filters }

\* what a tracked field of an entity can hold: nothing, null, a string, an
\* ISO date string, a Date
FieldValueInputs ==
  { Undefined, Null, "x", "y", IsoDates[1], DateObjs[1], DateObjs[2] }

\* tag collections: no array, or up to MaxTagsLen ids, one of them falsy
TagIdInputs == { "g1", "g2", "" }
TagInputs ==
  {NoTags} \cup { Tags(s) : s \in UNION { [1..n -> TagIdInputs] : n \in 0..MaxTagsLen } }

\* fields of a task that detectTaskChanges does not look at, with the values
\* they take
UntrackedFieldInputs ==
  { <<"id", 1>>, <<"id", 2>>, <<"projectId", "p1">>, <<"projectId", "p2">> }

\* pairs of entities for detectTaskChanges: the seeded task with one tracked
\* field set on either side, or with the tags set on either side, or with a
\* field that is not tracked set on either side, alone or next to the title
EntityPairInputs ==
  { << [SeedTask EXCEPT ![f] = a], [SeedTask EXCEPT ![f] = b] >> :
      f \in SeqRange(TrackedFields), a \in FieldValueInputs, b \in FieldValueInputs }
    \cup
  { << [SeedTask EXCEPT !.tags = a], [SeedTask EXCEPT !.tags = b] >> :
      a \in TagInputs, b \in TagInputs }
    \cup
  { << [SeedTask EXCEPT ![a[1]] = a[2]], [SeedTask EXCEPT ![b[1]] = b[2], !.title = t] >> :
      a \in UntrackedFieldInputs, b \in UntrackedFieldInputs, t \in {"t1", "t2"} }

\* a page asked of a log of total records, all of the seeded task
PageInputs ==
  [page : 1..MaxPage, perPage : 1..MaxPerPage, total : 0..MaxTotal]

LogOf(total) ==
  [i \in 1..total |-> ActivityRow(i, 1, "u1", "UPDATED", NullChanges)]

\* logs whose records can share a created-at: the created-at of each record
\* (a millisecond of the database clock), in the order of insertion
StampInputs ==
  UNION { { s \in [1..n -> 1..MaxStamp] : \A i, j \in 1..n : i < j => s[i] <= s[j] } :
          n \in 0..MaxLogLen }

\* one query read page after page, from the first page to the last
PagedInputs == [stamps : StampInputs, perPage : 1..MaxTake]

\* findMany({orderBy: {createdAt: "desc"}}): the orders the database can
\* return the records in, given as their places in the order of insertion;
\* nothing orders records of one created-at
OrderedByCreatedAtDesc(stamps) ==
  { o \in [1..Len(stamps) -> 1..Len(stamps)] :
      /\ \A i, j \in 1..Len(stamps) : i # j => o[i] # o[j]
      /\ \A i, j \in 1..Len(stamps) : i < j => stamps[o[i]] >= stamps[o[j]] }

\* skip and take over one such order
findManyPage(order, skip, take) ==
  [k \in 1..(IF Len(order) - skip >= take THEN take
             ELSE IF Len(order) > skip THEN Len(order) - skip ELSE 0) |->
     order[skip + k]]

\* the calls that are made
FnCalls ==
  { [fn |-> "generateListCacheKey", arg |-> f, out |-> <<>>] : f \in FilterInputs }
    \cup
  { [fn |-> "generateItemCacheKey", arg |-> id, out |-> <<>>] : id \in IdInputs }
    \cup
  { [fn |-> "detectTaskChanges", arg |-> pr, out |-> <<>>] : pr \in EntityPairInputs }
    \cup
  { [fn |-> "findAll", arg |-> pg, out |-> <<>>] : pg \in PageInputs }
    \cup
  { [fn |-> "findAllPages", arg |-> pg, out |-> <<>>] : pg \in PagedInputs }

FnInit ==
  /\ db = [i \in {1} |-> SeedTask]
  /\ cache = [k \in {} |-> <<>>]
  /\ activities = <<>>
  /\ emails = {}
  /\ nextId = 2
  /\ work = 0
  /\ flaky = FALSE
  /\ req = [p \in Procs |-> Idle]
  /\ jobs = <<>>
  /\ scan = TRUE
  /\ pure \in FnCalls
  /\ lastFind = NoFind
  /\ pred = [p \in Procs |-> <<>>]
  /\ clean = [p \in Procs |-> TRUE]

\* the function is applied to the argument of the call
Apply(fn, result) ==
  /\ pure.fn = fn
  /\ pure.out = <<>>
  /\ pure' = [pure EXCEPT !.out = <<result>>]
  /\ UNCHANGED program

ApplyGenerateListCacheKey ==
  Apply("generateListCacheKey", generateListCacheKey(TaskPrefix, pure.arg))

ApplyGenerateItemCacheKey ==
  Apply("generateItemCacheKey", generateItemCacheKey(TaskPrefix, pure.arg))

ApplyDetectTaskChanges ==
  Apply("detectTaskChanges", detectTaskChanges(pure.arg[1], pure.arg[2]))

ApplyFindAll ==
  Apply("findAll",
        activitiesFindAll(LogOf(pure.arg.total), db,
                          [NoActivityFilter EXCEPT !.page = pure.arg.page,
                                                   !.perPage = pure.arg.perPage]))

RECURSIVE PagesRead(_, _, _)
\* what reading the pages 1 to n can give, each page being a query of its own
\* over one of the orders
PagesRead(orders, perPage, n) ==
  IF n = 0 THEN { <<>> }
  ELSE { Append(pages, page) :
           pages \in PagesRead(orders, perPage, n - 1),
           page \in { findManyPage(o, (n - 1) * perPage, perPage) : o \in orders } }

\* findAll called for page 1, 2, ... up to the last page of the total
ApplyFindAllPages ==
  /\ pure.fn = "findAllPages"
  /\ \E pages \in PagesRead(OrderedByCreatedAtDesc(pure.arg.stamps),
                            pure.arg.perPage,
                            (Len(pure.arg.stamps) + pure.arg.perPage - 1)
                              \div pure.arg.perPage) :
       Apply("findAllPages", pages)

FnNext ==
  \/ ApplyGenerateListCacheKey
  \/ ApplyGenerateItemCacheKey
  \/ ApplyDetectTaskChanges
  \/ ApplyFindAll
  \/ ApplyFindAllPages

FnSpec == FnInit /\ [][FnNext]_vars

\* the readers and writers of one task, with nothing failing: the behaviours
\* in which only the interleaving of the requests decides what the cache holds
RaceDto == [EmptyUpdate EXCEPT !.title = "t2"]

RaceInit ==
  /\ db = [i \in {1} |-> SeedTask]
  /\ cache = [k \in {} |-> <<>>]
  /\ activities = <<>>
  /\ emails = {}
  /\ nextId = 2
  /\ work = RaceWork
  /\ flaky = FALSE
  /\ req = [p \in Procs |-> Idle]
  /\ jobs = <<>>
  /\ scan = TRUE
  /\ pure = NoCall
  /\ lastFind = NoFind
  /\ pred = [p \in Procs |-> <<>>]
  /\ clean = [p \in Procs |-> TRUE]

RaceNext ==
  \E p \in Procs :
    \/ StartFindOne(p, 1)
    \/ StartUpdate(p, 1, RaceDto)
    \/ StartRemove(p, 1)
    \/ WrapGet(p)
    \/ WrapQuery(p)
    \/ WrapSet(p)
    \/ InvalidateItemCache(p)
    \/ InvalidateListKeys(p)
    \/ UpdateTask(p)
    \/ LogTaskUpdated(p)
    \/ LogTaskDeleted(p)
    \/ DeleteTask(p)
    \/ Return(p)

RaceSpec == RaceInit /\ [][RaceNext]_vars

\* ---------------------------------------------------------------- claims
Finds == { "findAll", "findOne" }

\* process p hands its result to the caller in this step
Returns(p) == req[p].pc \notin {"idle", "done"} /\ req'[p].pc = "done"

\* C1: a findAll or findOne whose cache wrapper call failed (the store failed, or
\* the wrapped query failed with something other than NotFound) ends in the
\* fallback, with the result of the direct persistence query for the same
\* filter / id; the only error it can raise is that query's own, never the
\* cache's.
C1_WrapFailureFallsBack ==
  [][\A p \in Procs :
       (/\ req[p].op \in Finds
        /\ Returns(p)
        /\ "cacheFail" \in req'[p].ev \/ req[p].pc = "fallback")
       => /\ req[p].pc = "fallback"
          /\ \/ req'[p].result = QueryResult(req[p], db)
             \/ req'[p].result = <<"DbError">> /\ "dbFail" \in req'[p].ev]_vars

\* a findAll and a findOne have both returned the directly queried data after
\* the cache failed them
C1_Witness ==
  \E p, q \in Procs :
    /\ req[p].pc = "done" /\ req[p].op = "findAll"
    /\ {"cacheFail", "direct"} \subseteq req[p].ev
    /\ req[p].result = <<"list", executeTaskListQuery(db, req[p].filter)>>
    /\ Len(req[p].result[2]) > 0
    /\ req[q].pc = "done" /\ req[q].op = "findOne"
    /\ {"cacheFail", "direct"} \subseteq req[q].ev
    /\ req[q].id \in DOMAIN db
    /\ req[q].result = <<"task", db[req[q].id]>>

\* C2: when the lookup of findOne runs, inside the wrapper or in the fallback,
\* and the id is absent from persistence, the call ends there with NotFound:
\* nothing is stored in the cache and no fallback result takes its place.
C2_AbsentIdIsNotFound ==
  [][\A p \in Procs :
       (/\ req[p].op \in {"findOne", "update", "remove"}
        /\ req[p].id \notin DOMAIN db
        /\ req'[p] # req[p]
        /\ \/ req[p].pc = "query" /\ req'[p].pc # "fallback"
           \/ req[p].pc = "fallback" /\ req'[p].result # <<"DbError">>)
       => /\ req'[p].pc = "done"
          /\ req'[p].result = <<"NotFound">>
          /\ cache' = cache]_vars

\* NotFound has been raised once from the wrapper and once from the fallback,
\* and the item key holds nothing
C2_Witness ==
  \E p, q \in Procs :
    /\ req[p].pc = "done" /\ req[p].op = "findOne"
    /\ req[p].result = <<"NotFound">> /\ "query" \in req[p].ev
    /\ req[q].pc = "done" /\ req[q].op = "findOne"
    /\ req[q].result = <<"NotFound">> /\ "direct" \in req[q].ev
    /\ req[p].key \notin DOMAIN cache
    /\ req[q].key \notin DOMAIN cache

\* C3: a findOne that starts after a findOne of the same id has returned through
\* the cache, with no step of a mutation of that task, no expiry and no other
\* change of the item entry in between, and that finds the cache working,
\* returns the same result, from the cache entry, without a persistence query.
C3_SecondFindOneIsServedFromCache ==
  \A p \in Procs :
    (/\ req[p].pc = "done" /\ req[p].op = "findOne"
     /\ pred[p] # <<>>
     /\ "cacheFail" \notin req[p].ev)
    => /\ req[p].result = pred[p]
       /\ "hit" \in req[p].ev
       /\ {"query", "direct"} \cap req[p].ev = {}

\* the second of two successive findOne calls has returned the first one's
\* result from the cache
C3_Witness ==
  \E p \in Procs :
    /\ req[p].pc = "done" /\ req[p].op = "findOne"
    /\ pred[p] # <<>>
    /\ req[p].result = pred[p]
    /\ req[p].ev = {"cacheOk", "hit"}

\* a request that no mutation has overlapped: none was in progress when it
\* started nor has started since, so every earlier mutation had returned
QuietRead(p, op) == req[p].pc = "done" /\ req[p].op = op /\ clean[p]

\* C4: a findAll that starts after create has returned returns a list that
\* contains the created task whenever the task satisfies the filter, whatever
\* lists were cached before the create.
C4_FindAllAfterCreateHasNewTask ==
  \A p \in Procs :
    (QuietRead(p, "findAll") /\ req[p].result[1] = "list")
    => \A i \in DOMAIN db :
         (i # SeedTask.id /\ TaskMatches(db[i], buildWhereClause(req[p].filter)))
         => \E j \in 1..Len(req[p].result[2]) : req[p].result[2][j].id = i

\* C5: when update has returned, the item entry is not the pre-update snapshot
\* any more, and a findOne that starts after it returns the persisted values.
C5_FindOneAfterUpdateIsFresh ==
  \A p \in Procs :
    /\ (/\ req[p].pc = "done" /\ req[p].op = "update" /\ clean[p]
        /\ req[p].result[1] = "task"
        /\ req[p].task # req[p].existing
        /\ req[p].key \in DOMAIN cache)
       => cache[req[p].key] # <<"task", req[p].existing>>
    /\ (/\ QuietRead(p, "findOne")
        /\ req[p].result[1] = "task"
        /\ req[p].id \in DOMAIN db)
       => req[p].result[2] = db[req[p].id]

\* C6: a findOne that starts after remove has returned its acknowledgement
\* raises NotFound (or the error of its own persistence query): the removed
\* task is not served.
C6_FindOneAfterRemoveIsNotFound ==
  \A p \in Procs :
    (/\ QuietRead(p, "findOne")
     /\ req[p].id < nextId
     /\ req[p].id \notin DOMAIN db)
    => \/ req[p].result = <<"NotFound">>
       \/ req[p].result = <<"DbError">> /\ "dbFail" \in req[p].ev

\* C7: with nothing failing, a findOne that starts when every writer of the
\* task has finished its invalidation and returned, and that is served from
\* the cache, returns the persisted row, not a snapshot from before a write.
C7_NoStaleHitAfterInvalidation ==
  \A p \in Procs :
    (QuietRead(p, "findOne") /\ "hit" \in req[p].ev)
    => /\ req[p].id \in DOMAIN db
       /\ req[p].result = <<"task", db[req[p].id]>>

\* the result a mutation gives when nothing stops it
NormalResult(r) == IF r.op = "remove" THEN <<"ack">> ELSE <<"task", r.task>>

\* C8: a mutation ends with its normal result (the persisted task, the
\* acknowledgement) unless persistence failed it or the task was not found:
\* no failure of a cache operation (wrapper, set, del, key scan) reaches the
\* caller, even when every cache operation of the request failed.
C8_CacheFailureNeverFailsMutation ==
  \A p \in Procs :
    (req[p].pc = "done" /\ req[p].op \in Mutations)
    => \/ req[p].result = NormalResult(req[p]) /\ req[p].op = "remove"
       \/ req[p].result = NormalResult(req[p]) /\ req[p].task.id # 0
       \/ req[p].result = <<"DbError">> /\ "dbFail" \in req[p].ev
       \/ req[p].result = <<"NotFound">> /\ req[p].op # "create"

\* an update and a create have returned their tasks although every cache
\* operation they made failed
C8_Witness ==
  \E p, q \in Procs :
    /\ req[p].pc = "done" /\ req[p].op = "update"
    /\ "cacheFail" \in req[p].ev /\ "cacheOk" \notin req[p].ev
    /\ req[p].result = <<"task", req[p].task>>
    /\ req[p].task # req[p].existing
    /\ req[q].pc = "done" /\ req[q].op = "create"
    /\ "cacheFail" \in req[q].ev /\ "cacheOk" \notin req[q].ev
    /\ req[q].id \in DOMAIN db
    /\ req[q].result = <<"task", db[req[q].id]>>

\* C9: a mutation whose activity write failed still ends with its normal
\* result after its persistence write and its cache invalidation: create and
\* update return the task, remove goes on to delete the row, invalidates and
\* acknowledges (unless the delete itself fails in persistence).
C9_ActivityFailureNeverFailsMutation ==
  \A p \in Procs :
    (req[p].pc = "done" /\ req[p].op \in Mutations /\ "logFail" \in req[p].ev)
    => \/ /\ req[p].op \in {"create", "update"}
          /\ req[p].result = <<"task", req[p].task>>
          /\ req[p].task.id # 0
          /\ "invalidated" \in req[p].ev
       \/ /\ req[p].op = "remove"
          /\ req[p].result = <<"ack">>
          /\ req[p].id \notin DOMAIN db
          /\ "invalidated" \in req[p].ev
       \/ /\ req[p].op = "remove"
          /\ req[p].result = <<"DbError">>
          /\ "dbFail" \in req[p].ev

\* a remove has deleted its task and acknowledged, and a create has returned
\* its task, both after their activity write failed
C9_Witness ==
  \E p, q \in Procs :
    /\ req[p].pc = "done" /\ req[p].op = "remove"
    /\ "logFail" \in req[p].ev
    /\ req[p].result = <<"ack">> /\ req[p].id \notin DOMAIN db
    /\ req[q].pc = "done" /\ req[q].op = "create"
    /\ "logFail" \in req[q].ev
    /\ req[q].id \in DOMAIN db
    /\ req[q].result = <<"task", db[req[q].id]>>

\* C10: create and update return in the step that sends the notification,
\* without waiting for it; when a notification in flight settles, resolved or
\* rejected, no request's result and no persisted task changes.
C10_NotificationNotAwaited ==
  [][/\ \A p \in Procs :
          (req[p].pc \in {"logTaskCreated", "logTaskUpdated"} /\ req'[p] # req[p])
          => /\ req'[p].pc = "done"
             /\ req'[p].result = <<"task", req[p].task>>
     /\ (emails' \subseteq emails /\ emails' # emails)
          => req' = req /\ db' = db]_vars

\* a create and an update have returned while the notifications they sent are
\* still in flight
C10_Witness ==
  \E p, q \in Procs :
    /\ req[p].pc = "done" /\ req[p].op = "create"
    /\ req[p].result = <<"task", req[p].task>>
    /\ [task |-> req[p].task.id, to |-> req[p].task.assigneeId,
        title |-> req[p].task.title] \in emails
    /\ req[q].pc = "done" /\ req[q].op = "update"
    /\ req[q].result = <<"task", req[q].task>>
    /\ [task |-> req[q].task.id, to |-> req[q].task.assigneeId,
        title |-> req[q].task.title] \in emails

\* the notification for the task a request has written
MailFor(t) == [task |-> t.id, to |-> t.assigneeId, title |-> t.title]

\* C11: a notification is dispatched by create exactly when the created task
\* has an assignee, and by update exactly when the request carries an
\* assignee id that differs from the assignee id of the task as it was fetched
\* before the write; no other step of a request dispatches one: not a remove,
\* not an update that unassigns, not an update that keeps the assignee.
C11_NotificationExactlyOnAssignment ==
  [][\A p \in Procs :
       req'[p] # req[p] =>
         LET r == req[p]
             assigns ==
               \/ /\ r.op = "create" /\ r.pc = "logTaskCreated"
                  /\ Truthy(r.task.assigneeId)
               \/ /\ r.op = "update" /\ r.pc = "logTaskUpdated"
                  /\ r.dto.assigneeId \in Users
                  /\ r.dto.assigneeId # r.existing.assigneeId
         IN  IF assigns
             THEN emails' = emails \cup {MailFor(r.task)}
             ELSE emails' = emails]_vars

\* an update that gave the task to another assignee has returned, and its
\* notification is the one in flight
C11_Witness ==
  \E p \in Procs :
    /\ req[p].pc = "done"
    /\ req[p].op = "update"
    /\ req[p].result[1] = "task"
    /\ req[p].dto.assigneeId = "u2"
    /\ req[p].existing.assigneeId # "u2"
    /\ emails = {MailFor(req[p].task)}

\* C12 as stated: whenever a persistence operation of a request has failed
\* (list query, single query, create, update, delete), the request ends with
\* that failure.
C12_PersistenceFailureAlwaysPropagates ==
  \A p \in Procs :
    req[p].pc = "done" /\ "dbFail" \in req[p].ev => req[p].result = <<"DbError">>

\* the persistence failure is what the caller gets
Raised(r) == r.pc = "done" /\ r.result = <<"DbError">>

\* C12, amended: the persistence create, update and delete and the direct
\* (fallback) query either take effect or end the request with their failure,
\* with nothing written; only the query that runs inside the cache wrapper is
\* different: its failure never ends the request, the query is run again
\* directly, and a failure of that second run is what propagates.
C12_WriteOrDirectQueryFailurePropagates ==
  [][\A p \in Procs :
       req'[p] # req[p] =>
         LET r == req[p]
             n == req'[p]
         IN  CASE r.pc = "createTask" ->
                    \/ nextId \in DOMAIN db' /\ n.pc = "cacheTask"
                    \/ db' = db /\ Raised(n)
               [] r.pc = "updateTask" ->
                    \/ /\ r.id \in DOMAIN db
                       /\ db' = [db EXCEPT ![r.id] = updateTask(@, r.dto)]
                       /\ n.pc = "invalidate"
                    \/ db' = db /\ Raised(n)
               [] r.pc = "deleteTask" ->
                    \/ r.id \in DOMAIN db /\ r.id \notin DOMAIN db' /\ n.pc = "invalidate"
                    \/ db' = db /\ Raised(n)
               [] r.pc = "fallback" ->
                    \/ "direct" \in n.ev /\ ~Raised(n)
                    \/ "direct" \notin n.ev /\ Raised(n)
               [] r.pc = "query" ->
                    \/ "query" \in n.ev /\ ~Raised(n)
                    \/ n.pc = "fallback"
               [] OTHER -> Raised(r) => n.pc = "idle"]_vars

\* an update whose write failed has ended with the persistence failure, the
\* row being as it was fetched
C12_Witness ==
  \E p \in Procs :
    /\ req[p].pc = "done"
    /\ req[p].op = "update"
    /\ req[p].result = <<"DbError">>
    /\ req[p].existing.id # 0
    /\ req[p].id \in DOMAIN db
    /\ db[req[p].id] = req[p].existing

\* the change maps that say nothing: absent, and empty
SilentChanges == { NullChanges, [isNull |-> FALSE, map |-> EmptyMap] }

\* logTaskUpdated called on the table as it is leaves it as it is, for every
\* task, user and silent change map
SilentUpdateWritesNothing(acts, rows) ==
  \A taskId \in TaskIds, userId \in Users, changes \in SilentChanges :
    logTaskUpdated(acts, rows, taskId, userId, changes).acts = acts

\* C13: no UPDATED record is ever persisted for an empty change map:
\* logTaskUpdated called with an empty or absent map persists nothing, an
\* update whose computed diff is empty adds no activity record (neither does
\* the interceptor for a body that changes nothing), and no UPDATED record in
\* the table lacks changes.
C13_NoUpdatedRecordForEmptyChanges ==
  [][/\ SilentUpdateWritesNothing(activities, db)
     /\ SilentUpdateWritesNothing(activities', db')
     /\ \A p \in Procs :
          /\ req'[p] # req[p]
          /\ req[p].pc = "logTaskUpdated"
          /\ DOMAIN detectTaskChanges(
                       req[p].existing,
                       newTaskForComparison(req[p].existing, req[p].dto)) = {}
          => activities' = activities
     /\ \A i \in 1..Len(jobs) :
          /\ jobs' # jobs /\ Len(jobs') < Len(jobs)
          /\ \A k \in 1..Len(jobs') : jobs'[k] = IF k < i THEN jobs[k] ELSE jobs[k + 1]
          /\ jobs[i].method = "PUT"
          /\ DOMAIN detectChanges(jobs[i].orig, jobs[i].body) = {}
          /\ \A k \in 1..Len(jobs) : k # i => jobs[k] # jobs[i]
          => activities' = activities
     /\ \A i \in 1..Len(activities') :
          activities'[i].action = "UPDATED" =>
            /\ ~activities'[i].changes.isNull
            /\ DOMAIN activities'[i].changes.map # {}]_vars

\* an update that names the assignee the task already has went through the
\* controller, the interceptor has run for it, and no record was written
C13_Witness ==
  \E p \in Procs :
    /\ req[p].pc = "done"
    /\ req[p].op = "update"
    /\ req[p].result[1] = "task"
    /\ req[p].dto.assigneeId = "u1"
    /\ req[p].existing.assigneeId = "u1"
    /\ req[p].orig.id = req[p].id
    /\ work = HttpWork - 1
    /\ jobs = <<>>
    /\ activities = <<>>

\* C14: an update request that changes only the title of an existing task
\* results in exactly one UPDATED record, whose change map is exactly
\* {title: {old, new}}. Stated for the first request of a run, once the
\* request has returned and the interceptor has run for it.
C14_TitleUpdateLogsExactlyOneRecord ==
  \A p \in Procs :
    /\ req[p].pc = "done"
    /\ req[p].op = "update"
    /\ req[p].result[1] = "task"
    /\ req[p].dto = [EmptyUpdate EXCEPT !.title = "t2"]
    /\ req[p].existing.title # "t2"
    /\ work = HttpWork - 1
    /\ jobs = <<>>
    => /\ Len(activities) = 1
       /\ activities[1].action = "UPDATED"
       /\ activities[1].taskId = req[p].id
       /\ activities[1].changes =
            [isNull |-> FALSE,
             map |-> ("title" :> [old |-> req[p].existing.title, new |-> "t2"])]

\* C15: in remove(id) the attempt to persist the DELETED activity record comes
\* before the persistence delete, and the cache invalidation comes after it:
\* the delete is entered only from the logging attempt, a record is added by
\* a remove only in that attempt and is the DELETED record of a task that is
\* still there, the row goes only in the delete step, and the remove touches
\* cache entries of the task only once the row is gone.
C15_RemoveLogsThenDeletesThenInvalidates ==
  [][\A p \in Procs :
       req[p].op = "remove" /\ req'[p] # req[p] =>
         LET r == req[p]
             n == req'[p]
         IN  /\ n.pc = "deleteTask" => r.pc = "logTaskDeleted"
             /\ activities' # activities /\ r.pc # "deleteTask" =>
                  /\ r.pc = "logTaskDeleted"
                  /\ r.id \in DOMAIN db
                  /\ activities' =
                       Append(activities,
                              ActivityRow(Len(activities) + 1, r.id,
                                          activities'[Len(activities')].userId,
                                          "DELETED", NullChanges))
             /\ db' # db =>
                  r.pc = "deleteTask" /\ DOMAIN db' = DOMAIN db \ {r.id}
             /\ n.pc = "invalidate" =>
                  r.pc \in {"deleteTask", "invalidate"} /\ r.id \notin DOMAIN db'
             /\ r.pc = "invalidate" => r.id \notin DOMAIN db
             /\ cache' # cache /\ r.pc # "set" => r.pc = "invalidate"
             /\ n.pc = "done" /\ n.result = <<"ack">> =>
                  r.pc = "invalidate"]_vars

\* a remove has logged, deleted and invalidated, and returned its ack: the
\* DELETED record is there, detached from the task that is gone
C15_Witness ==
  \E p \in Procs :
    /\ req[p].pc = "done"
    /\ req[p].op = "remove"
    /\ req[p].result = <<"ack">>
    /\ "invalidated" \in req[p].ev
    /\ req[p].id \notin DOMAIN db
    /\ \E i \in 1..Len(activities) :
         activities[i].action = "DELETED" /\ activities[i].taskId = 0

\* C16: update and remove on an id that does not exist raise NotFound and
\* leave everything as it was: no persistence write or delete, no activity
\* record, no cache invalidation, no notification. Stated for a request that
\* no other mutation overlaps, so that the id is absent all through it; a
\* lookup that fails in persistence may end it with that failure instead.
C16_AbsentIdLeavesEverythingUnchanged ==
  [][\A p \in Procs :
       /\ req'[p] # req[p]
       /\ req[p].op \in {"update", "remove"}
       /\ req[p].pc \notin {"idle", "done", "invalidate"}
       /\ clean[p]
       /\ req[p].id \notin DOMAIN db
       => /\ db' = db
          /\ activities' = activities
          /\ emails' = emails
          /\ cache' = cache
          /\ req'[p].pc = "done" =>
               \/ req'[p].result = <<"NotFound">>
               \/ req'[p].result = <<"DbError">> /\ req'[p].existing.id = 0]_vars

\* the records of the table that the unfiltered activity query returns under
\* the placeholder title, with no task reference
ShownAsDeleted(acts, rows) ==
  LET data == activitiesFindAll(acts, rows, NoActivityFilter).data
  IN  { acts[i].id : i \in { j \in 1..Len(acts) :
          \E k \in 1..Len(data) :
            /\ data[k].id = acts[j].id
            /\ data[k].taskId = 0
            /\ data[k].taskTitle = "[Deleted Task]"
            /\ data[k].action = acts[j].action
            /\ data[k].userId = acts[j].userId } }

\* C17: deleting a task never removes its activity records: every record that
\* referred to the task is still there after the delete, the same but for its
\* task reference, which is null, and the activity query returns it with
\* the title "[Deleted Task]".
C17_DeleteKeepsActivityRecords ==
  [][\A p \in Procs :
       req'[p] # req[p] /\ req[p].pc = "deleteTask" /\ db' # db =>
         /\ Len(activities') = Len(activities)
         /\ \A i \in 1..Len(activities) :
              activities'[i] =
                IF activities[i].taskId = req[p].id
                THEN [activities[i] EXCEPT !.taskId = 0]
                ELSE activities[i]
         /\ \A i \in 1..Len(activities) :
              activities[i].taskId = req[p].id =>
                activities[i].id \in ShownAsDeleted(activities', db')]_vars

\* a task with an UPDATED and a DELETED record has been deleted: both
\* records are there without a task, and the query shows both as deleted
C17_Witness ==
  /\ 1 \notin DOMAIN db
  /\ \E i, j \in 1..Len(activities) :
       /\ activities[i].action = "UPDATED" /\ activities[i].taskId = 0
       /\ activities[j].action = "DELETED" /\ activities[j].taskId = 0
       /\ {activities[i].id, activities[j].id} \subseteq ShownAsDeleted(activities, db)

\* C18: once a task that was created through create has been removed through
\* remove, the activity query filtered by that task's id (findByTaskId) still
\* returns both its CREATED record and its DELETED record, each with the
\* deleted-task placeholder title. Stated at the delete: what the query
\* returns right after it.
C18_RemovedTaskHistoryFoundByTaskId ==
  [][\A p \in Procs :
       req'[p] # req[p] /\ req[p].pc = "deleteTask" /\ db' # db =>
         LET mine == { i \in 1..Len(activities) :
                         /\ activities[i].taskId = req[p].id
                         /\ activities[i].action \in {"CREATED", "DELETED"} }
             data == findByTaskId(activities', db', req[p].id,
                                  NoActivityFilter).data
         IN  /\ \E i \in mine : activities[i].action = "CREATED"
             /\ \E i \in mine : activities[i].action = "DELETED"
             => \A i \in mine :
                  \E k \in 1..Len(data) :
                    /\ data[k].id = activities[i].id
                    /\ data[k].action = activities[i].action
                    /\ data[k].taskTitle = "[Deleted Task]"]_vars

\* C19: the activity log is append-only: no step removes a record, and the
\* actor, the action, the changes and the created-at (the place in the order
\* of insertion) of a record that exists never change; only its task
\* reference may change, and only to null.
C19_ActivityLogAppendOnly ==
  [][/\ Len(activities') >= Len(activities)
     /\ \A i \in 1..Len(activities) :
          /\ activities'[i].id = activities[i].id
          /\ activities'[i].userId = activities[i].userId
          /\ activities'[i].action = activities[i].action
          /\ activities'[i].changes = activities[i].changes
          /\ activities'[i].taskId \in {activities[i].taskId, 0}]_vars

\* the log holds three records, written by the orchestrator and by the
\* interceptor, and the oldest has lost its task to a delete
C19_Witness ==
  /\ Len(activities) = 3
  /\ activities[1].taskId = 0
  /\ \A i \in 1..3 : activities[i].id = i

\* C20: every CREATED record and every DELETED record has changes = null;
\* every UPDATED record has a change map that is not empty.
C20_ChangesFitTheAction ==
  \A i \in 1..Len(activities) :
    /\ activities[i].action \in {"CREATED", "UPDATED", "DELETED"}
    /\ activities[i].action \in {"CREATED", "DELETED"} =>
         activities[i].changes = NullChanges
    /\ activities[i].action = "UPDATED" =>
         /\ ~activities[i].changes.isNull
         /\ DOMAIN activities[i].changes.map # {}

\* the log holds a CREATED record with no changes and an UPDATED record whose
\* change map names the assignee
C20_Witness ==
  \E i, j \in 1..Len(activities) :
    /\ activities[i].action = "UPDATED"
    /\ "assigneeId" \in DOMAIN activities[i].changes.map
    /\ activities[j].action = "CREATED"
    /\ activities[j].changes.isNull

\* the call of fn has returned
Applied(fn) == pure.fn = fn /\ pure.out # <<>>

\* the filters that hold the same properties as f, in any order
Reorderings(f) ==
  { g \in FilterInputs :
      Len(g) = Len(f) /\ SeqRange(g) = SeqRange(f) }

\* C21: generateListCacheKey is insensitive to property order: the key it
\* returned for a filter is the key of every reordering of the filter's
\* properties, and of the same filter when it is called again.
C21_ListKeyIgnoresPropertyOrder ==
  Applied("generateListCacheKey") =>
    \A g \in Reorderings(pure.arg) :
      generateListCacheKey(TaskPrefix, g) = pure.out[1]

\* the key of a filter of three properties, held in an order that is not the
\* sorted one, has been derived
C21_Witness ==
  /\ Applied("generateListCacheKey")
  /\ pure.arg = << <<"status", "x">>, <<"assigneeId", "y">>, <<"priority", "x">> >>
  /\ Cardinality(Reorderings(pure.arg)) = 6

\* the two filters give some field different values, a field that a filter
\* does not hold having the value undefined in it
FiltersDiffer(f, g) ==
  \E n \in FilterFieldInputs : FilterGet(f, n) # FilterGet(g, n)

\* C22: two filters that differ in at least one field value get different
\* list cache keys (the hash taken as collision-free): the key returned for a
\* filter is the key of no filter that differs from it, so that the entry
\* stored under it is read back for no other filter combination.
C22_DifferentFiltersDifferentKeys ==
  Applied("generateListCacheKey") =>
    \A g \in FilterInputs :
      FiltersDiffer(pure.arg, g) =>
        generateListCacheKey(TaskPrefix, g) # pure.out[1]

\* the key of a filter on two fields has been derived; filters with another
\* value of either field, with one field less and with one field more differ
\* from it
C22_Witness ==
  /\ Applied("generateListCacheKey")
  /\ pure.arg = << <<"priority", "x">>, <<"assigneeId", "x">> >>
  /\ \A g \in { << <<"priority", "y">>, <<"assigneeId", "x">> >>,
                 << <<"priority", "x">> >>,
                 << <<"assigneeId", "x">>, <<"priority", "x">>, <<"status", "x">> >> } :
       g \in FilterInputs /\ FiltersDiffer(pure.arg, g)

\* C23: cache keys have exactly the forms "{prefix}:list:{32 lowercase hex
\* characters}" for lists and "{prefix}:item:{id}" for items, so that
\* distinct ids give distinct item keys and no item key of the family is a
\* list key of the family.
C23_KeyForms ==
  /\ Applied("generateListCacheKey") =>
       \E d \in {HexDigest(pure.out[1][3])} :
         /\ KeyText(pure.out[1]) =
              << "t", "a", "s", "k", "s", ":", "l", "i", "s", "t", ":" >> \o d
         /\ Len(d) = 32
         /\ \A i \in 1..Len(d) : IsHexChar(d[i])
  /\ Applied("generateItemCacheKey") =>
       /\ KeyText(pure.out[1]) =
            << "t", "a", "s", "k", "s", ":", "i", "t", "e", "m", ":" >> \o pure.arg
       /\ \A id \in IdInputs \ {pure.arg} :
            KeyText(generateItemCacheKey(TaskPrefix, id)) # KeyText(pure.out[1])
       /\ \A f \in FilterInputs :
            KeyText(generateListCacheKey(TaskPrefix, f)) # KeyText(pure.out[1])

\* the item key of an id that reads exactly like the digest of a filter has
\* been derived
C23_Witness ==
  /\ Applied("generateItemCacheKey")
  /\ pure.arg = HexDigest(Md5(JsonStringify(<<>>)))
  /\ Len(KeyText(pure.out[1])) = Len(KeyText(generateListCacheKey(TaskPrefix, <<>>)))

\* C24: detectTaskChanges(e, e) returns an empty change map for every entity
\* e.
C24_NoChangesAgainstItself ==
  Applied("detectTaskChanges") /\ pure.arg[1] = pure.arg[2] =>
    DOMAIN pure.out[1] = {}

\* an entity whose due date is an ISO string has been compared with itself
C24_Witness ==
  /\ Applied("detectTaskChanges")
  /\ pure.arg[1] = pure.arg[2]
  /\ pure.arg[1].dueDate = IsoDates[1]

\* a value that is neither undefined nor null
Real(v) == v # Undefined /\ v # Null

\* C25: for every tracked field f, a transition between undefined and null,
\* in either direction, is not reported as a change; a transition from null
\* or undefined to a real value is reported as {old: null, new: value} and a
\* transition from a real value to null as {old: value, new: null} (a date
\* being reported as the instant it is, read as its ISO string).
C25_NullAndUndefinedAreOneValue ==
  Applied("detectTaskChanges") =>
    \A f \in SeqRange(TrackedFields) :
      LET a == pure.arg[1][f]
          b == pure.arg[2][f]
          changes == JsonChanges(pure.out[1])
      IN  /\ ~Real(a) /\ ~Real(b) => f \notin DOMAIN changes
          /\ ~Real(a) /\ Real(b) =>
               f \in DOMAIN changes
                 /\ changes[f] = [old |-> Null, new |-> JsonValue(b)]
          /\ Real(a) /\ ~Real(b) =>
               f \in DOMAIN changes
                 /\ changes[f] = [old |-> JsonValue(a), new |-> Null]

\* a description that was undefined has been compared with one that is null
C25_Witness ==
  /\ Applied("detectTaskChanges")
  /\ pure.arg[1].description = Undefined
  /\ pure.arg[2].description = Null
  /\ pure.arg[1].title = "t1"

\* the set of tag ids of a tag collection
TagIdSet(tags) == SeqRange(extractTagIds(tags))

\* C26: detectTaskChanges compares tags as order-independent sets of tag ids:
\* it reports a tags change exactly when the set of tag ids of the old entity
\* differs from the set of tag ids of the new entity.
C26_TagsComparedAsSets ==
  Applied("detectTaskChanges") =>
    ("tags" \in DOMAIN pure.out[1]
       <=> TagIdSet(pure.arg[1].tags) # TagIdSet(pure.arg[2].tags))

\* C27: for every page >= 1, page size >= 1 and total >= 0 the activity query
\* skips (page - 1) * pageSize records, the newest ones, takes at most
\* pageSize records, and reports totalPages = ceil(total / pageSize); for
\* total = 15, pageSize = 5, page = 3 this is a skip of 10 and 3 pages.
C27_PaginationMath ==
  Applied("findAll") =>
    LET page == pure.arg.page
        perPage == pure.arg.perPage
        total == pure.arg.total
        skip == (page - 1) * perPage
        data == pure.out[1].data
        meta == pure.out[1].meta
    IN  /\ Len(data) <= perPage
        /\ Len(data) = IF total - skip >= perPage THEN perPage
                       ELSE IF total > skip THEN total - skip ELSE 0
        /\ \A k \in 1..Len(data) : data[k].createdAt = total - skip - k + 1
        /\ meta.total = total
        /\ meta.totalPages * perPage >= total
        /\ (meta.totalPages - 1) * perPage < total
        /\ page = 3 /\ perPage = 5 /\ total = 15 =>
             /\ meta.totalPages = 3
             /\ [k \in 1..Len(data) |-> data[k].createdAt] = << 5, 4, 3, 2, 1 >>

\* page 3 of 15 records in pages of 5 has been asked for and returned
C27_Witness ==
  /\ Applied("findAll")
  /\ pure.arg = [page |-> 3, perPage |-> 5, total |-> 15]
  /\ Len(pure.out[1].data) = 5

\* C28: invalidateAllCaches(id) starts both the item invalidation and the list
\* invalidation and returns only by the step that finishes the last of the two;
\* the item step, failed or not, leaves the list invalidation to run, a list
\* step, failed or not, never puts the item entry back, and the call always
\* returns normally.
C28_InvalidateAllRunsBothToTheEnd ==
  [][\A p \in Procs :
       LET r == req[p]
           n == req'[p]
           itemKey == generateItemCacheKey(TaskPrefix, r.id)
       IN  (n # r /\ "invalidateAllCaches" \in {r.op, n.op}) =>
             /\ r.pc = "idle" =>
                  n.pc = "invalidate" /\ n.invItem /\ n.invList = "scan"
             /\ r.pc = "invalidate" =>
                  /\ n.pc \in {"invalidate", "done"}
                  /\ n.pc = "done" =>
                       /\ n.result = <<"void">>
                       /\ \/ r.invItem /\ r.invList = "done"
                          \/ ~r.invItem /\ r.invList \in {"scan", "del"}
                  /\ r.invItem =>
                       /\ n.pc = "invalidate" /\ ~n.invItem /\ n.invList = "scan"
                       /\ ListKeys(cache', TaskPrefix) = ListKeys(cache, TaskPrefix)
                  /\ ~r.invItem =>
                       (itemKey \in DOMAIN cache' => itemKey \in DOMAIN cache)]_vars

\* an invalidateAllCaches(1) has returned normally after its item deletion
\* failed (the item entry is still there) and its list invalidation emptied
\* the lists
C28_Witness ==
  \E p \in Procs :
    /\ req[p].pc = "done"
    /\ req[p].op = "invalidateAllCaches"
    /\ req[p].result = <<"void">>
    /\ {"cacheFail", "cacheOk", "invalidated"} \subseteq req[p].ev
    /\ generateItemCacheKey(TaskPrefix, 1) \in DOMAIN cache
    /\ ListKeys(cache, TaskPrefix) = {}
    /\ scan

\* C29: a call of invalidateListCaches always returns normally; over a store
\* with a prefix scan, when no other call has written to the cache since it
\* started, no list entry is cached once it has returned; over a store without
\* a prefix scan it deletes nothing.
C29_ListInvalidationLeavesNoListEntry ==
  [][\A p \in Procs :
       LET r == req[p]
           n == req'[p]
       IN  (r.op = "invalidateListCaches" /\ r.pc = "invalidate" /\ n # r) =>
             /\ ~scan => cache' = cache /\ n.pc = "done"
             /\ n.pc = "done" =>
                  /\ n.result = <<"void">>
                  /\ (scan /\ clean[p]) => ListKeys(cache', TaskPrefix) = {}]_vars

\* C30: every step of a cache-service operation other than wrapQuery ends
\* normally, store failure or not: a read whose get failed returns null (and
\* otherwise what the store holds), a write returns nothing and on a failed
\* set stores nothing, an invalidation or clear goes on or returns nothing.
C30_OnlyWrapQueryRaises ==
  [][\A p \in Procs :
       LET r == req[p]
           n == req'[p]
           failed == "cacheFail" \in n.ev
       IN  (n # r /\ r.op \in CacheReads \cup CacheWrites \cup CacheInvalidations
                 /\ r.pc # "done") =>
             /\ r.pc = "cacheGet" =>
                  /\ n.pc = "done" /\ cache' = cache
                  /\ n.result = IF failed THEN <<"null">>
                                ELSE IF r.key \in DOMAIN cache THEN cache[r.key]
                                ELSE <<"undefined">>
             /\ r.pc = "cacheSet" =>
                  /\ n.pc = "done" /\ n.result = <<"void">>
                  /\ cache' = IF failed THEN cache ELSE CachePut(cache, r.key, r.val)
             /\ r.pc = "invalidate" =>
                  /\ n.pc \in {"invalidate", "done"}
                  /\ n.pc = "done" => n.result = <<"void">>]_vars

\* a getCachedItem(1) whose get failed has returned null although the entry is
\* cached
C30_Witness ==
  \E p \in Procs :
    /\ req[p].pc = "done" /\ req[p].op = "getCachedItem"
    /\ "cacheFail" \in req[p].ev /\ req[p].result = <<"null">>
    /\ generateItemCacheKey(TaskPrefix, 1) \in DOMAIN cache

\* C31: a create goes through its steps in one order: the row is persisted,
\* then the new task is written to the item cache under its own id, then the
\* list caches are invalidated, then the CREATED record is attempted and the
\* notification dispatched, by the step that returns the task; and in every
\* mutation the invalidation is entered only by a step after which the
\* persistence write is in place, and touches the cache only from then on.
C31_CreateStepsAreOrdered ==
  [][\A p \in Procs :
       LET r == req[p]
           n == req'[p]
       IN  (n # r /\ r.op \in Mutations /\ r.pc # "done") =>
             /\ r.op = "create" =>
                  /\ r.pc = "createTask" =>
                       \/ n.pc = "done" /\ n.result = <<"DbError">> /\ db' = db
                       \/ /\ n.pc = "cacheTask"
                          /\ n.id \notin DOMAIN db
                          /\ n.id \in DOMAIN db' /\ db'[n.id] = n.task
                          /\ n.task.id = n.id
                  /\ r.pc = "cacheTask" =>
                       /\ n.pc = "invalidate" /\ ~n.invItem /\ n.invList = "scan"
                       /\ cache' \in
                            {cache, CachePut(cache, generateItemCacheKey(TaskPrefix, r.id),
                                             <<"task", r.task>>)}
                  /\ r.pc = "invalidate" => n.pc \in {"invalidate", "logTaskCreated"}
                  /\ r.pc = "logTaskCreated" =>
                       n.pc = "done" /\ n.result = <<"task", r.task>>
                  /\ db' # db => r.pc = "createTask"
                  /\ cache' # cache => r.pc \in {"cacheTask", "invalidate"}
                  /\ activities' # activities =>
                       /\ r.pc = "logTaskCreated"
                       /\ activities'[Len(activities')].action = "CREATED"
                       /\ activities'[Len(activities')].taskId = r.id
                  /\ emails' # emails =>
                       r.pc = "logTaskCreated" /\ emails' = Dispatch(emails, r.task)
             /\ (n.pc = "invalidate" /\ r.pc # "invalidate") =>
                  CASE r.op = "create" ->
                         r.pc = "cacheTask" /\ r.id \in 1..(nextId - 1)
                    [] r.op = "update" ->
                         /\ r.pc = "updateTask" /\ r.id \in DOMAIN db
                         /\ db' = [db EXCEPT ![r.id] = updateTask(@, r.dto)]
                    [] r.op = "remove" ->
                         /\ r.pc = "deleteTask" /\ r.id \in DOMAIN db
                         /\ r.id \notin DOMAIN db'
             /\ (cache' # cache /\ r.pc \notin {"set", "cacheTask"}) =>
                  r.pc = "invalidate"
             /\ r.pc = "invalidate" => db' = db]_vars

\* a create has gone all the way: its task is persisted and cached under its
\* own id, the lists were invalidated, the CREATED record is the last of the
\* log and the notification is in flight
C31_Witness ==
  \E p \in Procs :
    /\ req[p].pc = "done"
    /\ req[p].op = "create"
    /\ req[p].result = <<"task", req[p].task>>
    /\ "invalidated" \in req[p].ev
    /\ req[p].id \in DOMAIN db /\ db[req[p].id] = req[p].task
    /\ generateItemCacheKey(TaskPrefix, req[p].id) \in DOMAIN cache
    /\ cache[generateItemCacheKey(TaskPrefix, req[p].id)] = <<"task", req[p].task>>
    /\ activities # <<>>
    /\ activities[Len(activities)].action = "CREATED"
    /\ activities[Len(activities)].taskId = req[p].id
    /\ \E e \in emails : e.task = req[p].id

\* C32: the read-through path takes no lock. With nothing failing, a read
\* that misses its key goes on to the persistence query whatever other reads
\* of the key are doing, the value it then holds is the result of its own
\* query, and its store step puts that value under the key over whatever is
\* there: the entry left is the one written last.
C32_ConcurrentMissesLastWriteWins ==
  [][\A p \in Procs :
       LET r == req[p]
           n == req'[p]
       IN  (n # r /\ r.pc \in {"get", "query", "set"}) =>
             /\ (r.pc = "get" /\ r.key \notin DOMAIN cache) =>
                  n.pc = "query" /\ cache' = cache
             /\ r.pc = "query" =>
                  /\ cache' = cache
                  /\ \/ n.pc = "set" /\ n.val = QueryResult(r, db)
                     \/ n.pc = "done" /\ n.result = <<"NotFound">>
                                      /\ QueryResult(r, db) = <<"NotFound">>
             /\ r.pc = "set" =>
                  /\ cache' = CachePut(cache, r.key, r.val)
                  /\ r.op = "findOne" => n.pc = "done" /\ n.result = r.val]_vars

\* two findOne calls of task 1 have both missed, both run the query and both
\* stored; their results differ, and the entry in the cache is the one that
\* was written last, which is not the persisted row
C32_Witness ==
  \E p, q \in Procs :
    /\ p # q
    /\ req[p].pc = "done" /\ req[p].op = "findOne"
    /\ req[q].pc = "done" /\ req[q].op = "findOne"
    /\ req[p].id = req[q].id
    /\ {"query", "cacheOk"} \subseteq req[p].ev /\ "hit" \notin req[p].ev
    /\ {"query", "cacheOk"} \subseteq req[q].ev /\ "hit" \notin req[q].ev
    /\ req[p].result[1] = "task" /\ req[q].result[1] = "task"
    /\ req[p].result # req[q].result
    /\ req[p].key \in DOMAIN cache
    /\ cache[req[p].key] = req[p].result
    /\ req[p].id \in DOMAIN db
    /\ req[q].result = <<"task", db[req[p].id]>>

\* the value a tracked field is compared and reported as: null for undefined
\* and null, the instant for an ISO date string, the value itself otherwise
Normalized(v) == IF Real(v) THEN NewDate(v) ELSE Null

\* C33: the change map of detectTaskChanges has an entry for a field exactly
\* when the field is tracked (title, description, status, priority, dueDate,
\* assigneeId, tags) and its normalized old and new values differ, tags being
\* normalized to their set of ids; no other field appears, and an entry
\* carries the normalized old and new values (for tags, the ids of either
\* side).
C33_ChangeMapIsTheTrackedDifferences ==
  Applied("detectTaskChanges") =>
    LET old == pure.arg[1]
        new == pure.arg[2]
        out == pure.out[1]
    IN  /\ DOMAIN out \subseteq SeqRange(TrackedFields) \cup {"tags"}
        /\ \A f \in SeqRange(TrackedFields) :
             /\ f \in DOMAIN out <=> Normalized(old[f]) # Normalized(new[f])
             /\ f \in DOMAIN out =>
                  out[f] = [old |-> Normalized(old[f]), new |-> Normalized(new[f])]
        /\ "tags" \in DOMAIN out <=> TagIdSet(old.tags) # TagIdSet(new.tags)
        /\ "tags" \in DOMAIN out =>
             /\ SeqRange(out.tags.old) = TagIdSet(old.tags)
             /\ SeqRange(out.tags.new) = TagIdSet(new.tags)

RECURSIVE Flatten(_)
\* the pages one after the other
Flatten(pages) ==
  IF pages = <<>> THEN <<>> ELSE Head(pages) \o Flatten(Tail(pages))

\* C34: the activity query returns records by created-at descending, records
\* of one created-at in an order fixed by their order of insertion, so that
\* the pages of one query, read one after the other, hold every record once:
\* none twice, none left out.
C34_PagesNeitherRepeatNorSkip ==
  Applied("findAllPages") =>
    LET stamps == pure.arg.stamps
        all == Flatten(pure.out[1])
        tied == { <<i, j>> \in (1..Len(all)) \X (1..Len(all)) :
                    i < j /\ stamps[all[i]] = stamps[all[j]] }
    IN  /\ Len(all) = Len(stamps)
        /\ \A i, j \in 1..Len(all) : i # j => all[i] # all[j]
        /\ \A i, j \in 1..Len(all) : i < j => stamps[all[i]] >= stamps[all[j]]
        /\ \/ \A pr \in tied : all[pr[1]] < all[pr[2]]
           \/ \A pr \in tied : all[pr[1]] > all[pr[2]]

\* the scheduled logging j was scheduled for the request r and writes an
\* activity record when it runs
WritesFor(j, r) ==
  CASE r.op = "create" ->
         j.method = "POST" /\ r.result[1] = "task" /\ j.response = r.result[2].id
    [] r.op = "update" ->
         /\ j.method = "PUT" /\ j.taskId = r.id
         /\ j.orig.id # 0 /\ DOMAIN detectChanges(j.orig, j.body) # {}
    [] r.op = "remove" -> j.method = "DELETE" /\ j.taskId = r.id

\* C35: activity logging is synchronous within the request that triggers it:
\* once a create, update or remove has returned to its caller, no activity
\* write caused by that request is still to come (stated for a request that
\* is the only one being served, so that every pending write is its own).
C35_NoActivityWriteAfterTheResponse ==
  \A p \in Procs :
    (/\ req[p].pc = "done"
     /\ req[p].op \in Mutations
     /\ req[p].http # "none"
     /\ \A q \in Procs \ {p} : req[q].pc = "idle")
    => \A i \in 1..Len(jobs) : ~WritesFor(jobs[i], req[p])

\* C36: in every reachable state the value under an item key
\* "tasks:item:{id}" is a task, and it is a snapshot of the task of that id:
\* create and the read-through of findOne store a task under its own id only.
C36_ItemKeyHoldsItsOwnTask ==
  \A k \in DOMAIN cache :
    (k[1] = TaskPrefix /\ k[2] = "item") =>
      /\ cache[k][1] = "task"
      /\ cache[k][2].id = k[3]
      /\ k = generateItemCacheKey(TaskPrefix, cache[k][2].id)

\* the item entries of two tasks are cached side by side, one written by
\* create and one by the read-through of findOne
C36_Witness ==
  /\ generateItemCacheKey(TaskPrefix, 1) \in DOMAIN cache
  /\ generateItemCacheKey(TaskPrefix, 2) \in DOMAIN cache
  /\ cache[generateItemCacheKey(TaskPrefix, 1)][2].id = 1
  /\ cache[generateItemCacheKey(TaskPrefix, 2)][2].id = 2

\* C37: a DELETED activity record exists for a task only if the task was
\* deleted from persistence: apart from the moment in which a remove stands
\* between its logging and its delete, no DELETED record refers to a task that
\* is still there; when the delete fails, the record does not remain.
C37_DeletedRecordOnlyForDeletedTask ==
  (\A p \in Procs : ~(req[p].op = "remove" /\ req[p].pc = "deleteTask"))
  => \A i \in 1..Len(activities) :
       activities[i].action = "DELETED" => activities[i].taskId \notin DOMAIN db

\* the records of the log with the given action for task t
LoggedFor(action, t) ==
  { i \in 1..Len(activities) :
      activities[i].action = action /\ activities[i].taskId = t }

\* C38: with activity persistence not failing, no request is logged twice: a
\* CREATED record is added only by the logging step of the create of that
\* task, a DELETED record only by the logging step of a remove of that task,
\* each request taking that step once; a create that returns its task with
\* the logging done leaves exactly one CREATED record for it, and a remove
\* that goes on to delete with the logging done exactly one DELETED record
\* more than there was.
C38_EachRequestLoggedOnce ==
  [][/\ Len(activities') > Len(activities) =>
          LET a == activities'[Len(activities')]
          IN  /\ a.action = "CREATED" =>
                   \E p \in Procs :
                     /\ req[p].op = "create" /\ req[p].pc = "logTaskCreated"
                     /\ req[p].id = a.taskId /\ req'[p].pc = "done"
              /\ a.action = "DELETED" =>
                   \E p \in Procs :
                     /\ req[p].op = "remove" /\ req[p].pc = "logTaskDeleted"
                     /\ req[p].id = a.taskId /\ req'[p].pc = "deleteTask"
     /\ \A p \in Procs :
          /\ (/\ req[p].op = "create" /\ req[p].pc = "logTaskCreated"
              /\ req'[p].pc = "done" /\ "logFail" \notin req'[p].ev)
             => Cardinality({ i \in 1..Len(activities') :
                                /\ activities'[i].action = "CREATED"
                                /\ activities'[i].taskId = req[p].id }) = 1
          /\ (/\ req[p].op = "remove" /\ req[p].pc = "logTaskDeleted"
              /\ req'[p].pc = "deleteTask" /\ "logFail" \notin req'[p].ev)
             => Cardinality({ i \in 1..Len(activities') :
                                /\ activities'[i].action = "DELETED"
                                /\ activities'[i].taskId = req[p].id })
                  = Cardinality(LoggedFor("DELETED", req[p].id)) + 1]_vars

\* C39: the old values of the UPDATED record of an update are the values the
\* task had in persistence immediately before the write of that update: the
\* record holds the change map taken from the task as the update fetched it,
\* and at the write every old value of that map is the value of the row.
C39_OldValuesAreThePersistedOnes ==
  [][\A p \in Procs :
       LET r == req[p]
           n == req'[p]
           changes == detectTaskChanges(r.existing,
                                        newTaskForComparison(r.existing, r.dto))
       IN  (r.op = "update" /\ n # r) =>
             /\ (r.pc = "updateTask" /\ n.pc = "invalidate") =>
                  \A f \in DOMAIN changes :
                    IF f = "tags"
                    THEN changes[f].old = extractTagIds(db[r.id].tags)
                    ELSE changes[f].old = Normalized(db[r.id][f])
             /\ (r.pc = "logTaskUpdated" /\ Len(activities') > Len(activities)) =>
                  /\ activities'[Len(activities')].action = "UPDATED"
                  /\ activities'[Len(activities')].changes.map = JsonChanges(changes)
             /\ r.pc \in {"updateTask", "invalidate", "logTaskUpdated"} =>
                  n.pc = "done" \/ n.existing = r.existing]_vars

\* C40: an invalidation touches the keys of its own family only: a step of
\* an invalidation adds and changes nothing, the item invalidation of id
\* removes at most "tasks:item:{id}", the list invalidation removes list keys
\* of the tasks family only, clearAllCaches removes keys of the tasks family
\* only; an item entry of another id and every entry of another family
\* ("projects:...") are left as they are.
C40_InvalidationStaysInItsFamily ==
  [][\A p \in Procs :
       LET r == req[p]
           n == req'[p]
           gone == DOMAIN cache \ DOMAIN cache'
       IN  (r.pc = "invalidate" /\ n # r) =>
             /\ \A k \in DOMAIN cache' : k \in DOMAIN cache /\ cache'[k] = cache[k]
             /\ \A k \in gone : k[1] = TaskPrefix
             /\ r.invItem => gone \subseteq {<<TaskPrefix, "item", r.id>>}
             /\ (~r.invItem /\ r.op # "clearAllCaches") =>
                  \A k \in gone : k[2] = "list"
             /\ r.op \in {"invalidateItemCache", "invalidateListCaches",
                           "invalidateAllCaches", "create", "update", "remove"} =>
                  \A k \in gone : k[2] = "list" \/ k = <<TaskPrefix, "item", r.id>>]_vars

\* an invalidateAllCaches(1) has returned with its deletions done while the
\* item entry of task 2 and the list entry of the projects family are cached
C40_Witness ==
  \E p \in Procs :
    /\ req[p].pc = "done"
    /\ req[p].op = "invalidateAllCaches"
    /\ req[p].id = 1
    /\ {"cacheOk", "invalidated"} \subseteq req[p].ev
    /\ "cacheFail" \notin req[p].ev
    /\ scan
    /\ generateItemCacheKey(TaskPrefix, 2) \in DOMAIN cache
    /\ generateListCacheKey(ProjectPrefix, <<>>) \in DOMAIN cache

====
